---- MODULE Spec2Model ----
(***************************************************************************)
(* BidForgeAI retrieval subsystem: DocumentProcessor.chunk_text,           *)
(* RAGService (index_document, search_similar, clear_collection,           *)
(* get_context_for_bid, get_collection_stats, detect_semantic_conflicts),  *)
(* the get_rag_service singleton, DocumentProcessor.process_pdf,           *)
(* DocumentManager (create_sample_data, index_project_documents),          *)
(* AIServiceManager (detect_conflicts, generate_bid) and the id-issuing    *)
(* save operations of Database.                                            *)
(*                                                                         *)
(* Texts are sequences of one-character strings.  Python indices are       *)
(* 0-based and are kept 0-based in start/end; SubSeq is 1-based.           *)
(***************************************************************************)
EXTENDS Integers, Sequences, FiniteSets, TLC

VARIABLES
    \* ---- one call of DocumentProcessor.chunk_text, statement by statement
    text,        \* argument text
    chunk_size,  \* argument chunk_size
    overlap,     \* argument overlap
    start,       \* local start
    chunks,      \* local chunks; the returned list once pc = "done"
    windows,     \* history: <<start, end>> of every iteration of the while loop
    pc,          \* "idle" | "call" | "loop" | "done"
    \* ---- the RAG service
    store,       \* ChromaDB: collection name -> sequence of stored records
    result,      \* what the last operation returned or raised
    prevCount,   \* history: collection name -> count() before the last operation
    indexedSum,  \* history: chunks reported indexed since the last clear, per collection
    dup_policy,  \* which ChromaDB is installed: what add does with a stored id
    clearing,    \* collections a clear_collection call has deleted and not yet re-created
    \* ---- the module global of rag_service.py and the threads calling get_rag_service
    rag_service_instance,  \* _rag_service_instance: None or the RAGService it holds
    constructed, \* history: how many RAGService objects have been constructed
    threads,     \* per thread: where it is in get_rag_service and what it was returned
    \* ---- the file-based Database
    db,          \* data_dir: subdirectory -> (id -> the record in <id>.json)
    now,         \* datetime.now(), in whole seconds
    issued       \* history: every id a create/save operation returned, with its data

chunkVars == <<text, chunk_size, overlap, start, chunks, windows, pc>>
ragVars == <<store, result, prevCount, indexedSum, dup_policy, clearing>>
singletonVars == <<rag_service_instance, constructed, threads>>
vars == <<text, chunk_size, overlap, start, chunks, windows, pc,
          store, result, prevCount, indexedSum, dup_policy, clearing,
          rag_service_instance, constructed, threads, db, now, issued>>
dbVars == <<db, now, issued>>

----------------------------------------------------------------------------
(* Bounds of the model *)

MaxTextLen == 10
\* a text is at most two windows (and one character) long
TextCap(cs) == 2 * cs + 1
\* the while loop is cut off this many iterations after the number a call
\* whose start increases every time can need
MaxExtraIter == 2
\* 9 is the least chunk_size at which a sentence cut can move start backwards
ChunkSizes == {3, 9}
\* overlaps tried for a chunk size: none, one, the largest ones below it, itself
Overlaps(cs) == {0, 1, cs - 2, cs - 1, cs}

----------------------------------------------------------------------------
(* Python built-ins used by chunk_text *)

SetMax(S) == CHOOSE x \in S : \A y \in S : y <= x
SetMin(S) == CHOOSE x \in S : \A y \in S : x <= y

Whitespace == {" ", "\n"}

\* an index of a slice bound, as Python normalises it for a sequence of length n
PyClamp(i, n) ==
    IF i < 0 THEN (IF i + n < 0 THEN 0 ELSE i + n)
    ELSE (IF i > n THEN n ELSE i)

\* s[a:b]
PySlice(s, a, b) ==
    LET lo == PyClamp(a, Len(s))
        hi == PyClamp(b, Len(s))
    IN  IF lo < hi THEN SubSeq(s, lo + 1, hi) ELSE << >>

\* s.rfind(sep): the highest 0-based index where sep occurs in s, or -1
rfind(s, sep) ==
    LET hits == {i \in 0..(Len(s) - Len(sep)) : SubSeq(s, i + 1, i + Len(sep)) = sep}
    IN  IF hits = {} THEN -1 ELSE SetMax(hits)

\* s.strip()
strip(s) ==
    LET keep == {i \in 1..Len(s) : s[i] \notin Whitespace}
    IN  IF keep = {} THEN << >> ELSE SubSeq(s, SetMin(keep), SetMax(keep))

----------------------------------------------------------------------------
(* DocumentProcessor.chunk_text *)

\* the list the for loop walks: '. ', '.\n', '! ', '?\n'
Separators == << <<".", " ">>, <<".", "\n">>, <<"!", " ">>, <<"?", "\n">> >>

\* "if last_sep > chunk_size * 0.5" for the separator sep in window text[start:end]
SepQualifies(window, sep, cs) == 2 * rfind(window, sep) > cs

\* the value of end after the "if end < len(text)" block: the first separator of
\* the list that qualifies moves end and breaks the for loop
SentenceEnd(t, cs, st, end) ==
    LET window == PySlice(t, st, end)
        ok == {k \in 1..Len(Separators) : SepQualifies(window, Separators[k], cs)}
    IN  IF end < Len(t) /\ ok # {}
        THEN LET sep == Separators[SetMin(ok)]
             IN  st + rfind(window, sep) + Len(sep)
        ELSE end

\* (mutant) "<" for "<="
IsShort_Strict(t, cs) == Len(t) < cs

\* line 281: "if len(text) <= chunk_size"
IsShort(t, cs) == Len(t) <= cs

\* (mutant) the next window starts at end, the overlap forgotten
NextStart_NoOverlap(t, end, ov) == end

\* (mutant) the overlap added instead of subtracted
NextStart_Forward(t, end, ov) == IF end < Len(t) THEN end + ov ELSE end

\* (mutant) the next window starts one character late
NextStart_SkipOne(t, end, ov) == IF end < Len(t) THEN end - ov + 1 ELSE end

\* line 303: start for the next iteration
NextStart(t, end, ov) == IF end < Len(t) THEN end - ov ELSE end

\* one iteration of the while loop, from start = st
ChunkIter(t, cs, ov, st) ==
    LET end == SentenceEnd(t, cs, st, st + cs)
    IN  [end   |-> end,
         chunk |-> strip(PySlice(t, st, end)),
         next  |-> NextStart(t, end, ov)]

\* (mutant) empty trimmed chunks are kept
AppendChunk_Always(cks, chunk) == Append(cks, chunk)

\* lines 300-301: "if chunk: chunks.append(chunk)"
AppendChunk(cks, chunk) == IF chunk # << >> THEN Append(cks, chunk) ELSE cks

RECURSIVE chunk_loop(_, _, _, _, _)
chunk_loop(t, cs, ov, st, cks) ==
    IF st < Len(t)
    THEN LET it == ChunkIter(t, cs, ov, st)
         IN  chunk_loop(t, cs, ov, it.next, AppendChunk(cks, it.chunk))
    ELSE cks

\* chunk_text as a function of its arguments (used where it is called with the
\* defaults, for which the loop ends)
chunk_text(t, cs, ov) ==
    IF IsShort(t, cs) THEN <<t>> ELSE chunk_loop(t, cs, ov, 0, << >>)

----------------------------------------------------------------------------
(* Python values *)

\* None; a tuple, so that it can be compared with texts and lists
None == <<"None">>

\* dict.get(key) and dict.get(key, default)
Get(d, k) == IF k \in DOMAIN d THEN d[k] ELSE None
GetOr(d, k, default) == IF k \in DOMAIN d THEN d[k] ELSE default

\* truth value of a str, list or None
Truthy(v) == v # None /\ v # << >>

\* what a call does: it returns a value or raises
Return(v) == [kind |-> "return", value |-> v]
Raise(e) == [kind |-> "raise", error |-> e]

\* the elements of the set S as a sequence, by increasing Key (keys differ)
SortedBy(S, Key(_)) ==
    [r \in 1..Cardinality(S) |->
        CHOOSE x \in S : Cardinality({y \in S : Key(y) < Key(x)}) = r - 1]

----------------------------------------------------------------------------
(* Embedding engine: SentenceTransformer.encode.  The model is a fixed,
   order-preserving function of the text; it is represented by a vector of
   two counts (letters, other characters), each plus one: no text has the
   zero vector. *)

Letters(t) == Cardinality({i \in 1..Len(t) : t[i] = "a"})
Embed(t) == <<1 + Letters(t), 1 + (Len(t) - Letters(t))>>

\* RAGService.generate_embeddings
generate_embeddings(texts) == [i \in 1..Len(texts) |-> Embed(texts[i])]

Dot(u, v) == u[1] * v[1] + u[2] * v[2]

\* squared L2 distance, the default space of a ChromaDB collection
Distance(u, v) == Dot(<<u[1] - v[1], u[2] - v[2]>>, <<u[1] - v[1], u[2] - v[2]>>)

\* the square of the cosine similarity of two embeddings, as a fraction
\* (embeddings have positive components, so the cosine is positive)
Cosine2(u, v) == [num |-> Dot(u, v) * Dot(u, v), den |-> Dot(u, u) * Dot(v, v)]

\* "similarity > pct / 100"
GreaterThanPct(sim, pct) == 10000 * sim.num > pct * pct * sim.den

----------------------------------------------------------------------------
(* Vector store: the ChromaDB client and its collections *)

CollectionNames == {"rfq_documents", "historical_bids", "conflict_documents"}
DocumentTypes == {"rfq", "bid", "conflict"}

\* the collection a document type selects ("if document_type == ..."), or None
CollectionOf(document_type) ==
    CASE document_type = "rfq" -> "rfq_documents"
      [] document_type = "bid" -> "historical_bids"
      [] document_type = "conflict" -> "conflict_documents"
      [] OTHER -> "None"

\* _init_collections on an empty persist directory
EmptyStore == [c \in CollectionNames |-> << >>]

StoredIds(coll) == {coll[i].id : i \in DOMAIN coll}

\* What add does with an id the collection already holds: ChromaDB 0.4 and
\* later skip the record, earlier versions raise
DupPolicies == {"ignore", "reject"}

\* collection.add(ids, embeddings, documents, metadatas)
collection_add(coll, ids, embeddings, documents, metadatas, policy) ==
    LET n == Len(ids)
        recs == [i \in 1..n |-> [id |-> ids[i], embedding |-> embeddings[i],
                                 document |-> documents[i], metadata |-> metadatas[i]]]
        Fresh(r) == r.id \notin StoredIds(coll)
    IN  IF \/ n = 0
           \/ Len(embeddings) # n \/ Len(documents) # n \/ Len(metadatas) # n
           \/ \E i, j \in 1..n : i # j /\ ids[i] = ids[j]
           \/ (policy = "reject" /\ \E i \in 1..n : ~Fresh(recs[i]))
        THEN [raised |-> TRUE, coll |-> coll]
        ELSE [raised |-> FALSE, coll |-> coll \o SelectSeq(recs, Fresh)]

\* collection.count()
collection_count(coll) == Len(coll)

\* collection.query(query_embeddings=[q], n_results=n): the n nearest records,
\* nearest first, ties in insertion order
collection_query(coll, q, n) ==
    LET m == Len(coll)
        Key(i) == Distance(q, coll[i].embedding) * (m + 1) + i
        order == SortedBy(1..m, Key)
        k == IF n < m THEN n ELSE m
    IN  [r \in 1..k |-> [id |-> coll[order[r]].id,
                         document |-> coll[order[r]].document,
                         metadata |-> coll[order[r]].metadata,
                         distance |-> Distance(q, coll[order[r]].embedding)]]

----------------------------------------------------------------------------
(* DocumentProcessor.process_file *)

SupportedFormats == {".pdf", ".txt", ".docx", ".xlsx", ".msg"}

\* process_pdf, process_txt, process_docx, process_xlsx, process_msg: a bytes
\* value is [text, readable]; decoding a .txt never fails, the other
\* extractors fail on bytes they cannot read
process_file(file_bytes, filename) ==
    IF filename.ext \notin SupportedFormats
    THEN [success |-> FALSE, error |-> "Unsupported file format", filename |-> filename]
    ELSE IF filename.ext # ".txt" /\ ~file_bytes.readable
    THEN [success |-> FALSE, error |-> "processing failed", filename |-> filename]
    ELSE [success |-> TRUE, filename |-> filename, content |-> file_bytes.text,
          char_count |-> Len(file_bytes.text)]

\* A call self.doc_processor.process_file(*args): Python binds the positional
\* arguments to (file_bytes, filename), both required, and raises TypeError
\* when their number differs
process_file_call(args) ==
    IF Len(args) # 2 THEN Raise("TypeError") ELSE Return(process_file(args[1], args[2]))

----------------------------------------------------------------------------
(* DocumentProcessor.process_pdf *)

(* A PDF is [pages, plumber, pypdf]: pages is the sequence of its pages, each
   [text, tables] (a table is a sequence of rows, each already joined with
   " | "); plumber and pypdf say where that extractor raises: 0 on opening
   the file, k in 1..len(pages) on reaching page k, anything larger nowhere.
   text_content is kept as the list of its parts; full_text joins them with
   two newlines, and word_count and char_count, which are counted from
   full_text, are left out of the result. *)

RECURSIVE Concat(_)
Concat(seqs) == IF seqs = << >> THEN << >> ELSE Head(seqs) \o Concat(Tail(seqs))

\* f"--- Page {page_num} ---\n{text}", appended "if text"
PageText(page, page_num) ==
    IF page.text # << >> THEN << <<"--- Page", page_num, page.text>> >> ELSE << >>

\* f"\n[Table {table_num} on Page {page_num}]" and one line for each row
TableText(page, page_num) ==
    Concat([t \in 1..Len(page.tables) |->
               << <<"[Table", t, page_num>> >> \o
               [r \in 1..Len(page.tables[t]) |-> <<"row", page.tables[t][r]>>]])

PlumberPage(page, page_num) == PageText(page, page_num) \o TableText(page, page_num)
PyPdfPage(page, page_num) == PageText(page, page_num)

ExtractorRaises(pages, fails_at) == fails_at <= Len(pages)

\* what one extractor appends to text_content before it raises or ends
Extracted(pages, fails_at, Page(_, _)) ==
    LET done == IF ExtractorRaises(pages, fails_at)
                THEN (IF fails_at = 0 THEN 0 ELSE fails_at - 1)
                ELSE Len(pages)
    IN  Concat([n \in 1..done |-> Page(pages[n], n)])

PdfSuccess(filename, text_content, pages) ==
    [success |-> TRUE, filename |-> filename, content |-> text_content,
     metadata |-> [pages |-> pages, format |-> "PDF"]]

process_pdf_NoFallback(file_bytes, filename) ==
    IF ~ExtractorRaises(file_bytes.pages, file_bytes.plumber)
    THEN [out |-> PdfSuccess(filename, Extracted(file_bytes.pages, file_bytes.plumber,
                                                 PlumberPage), Len(file_bytes.pages)),
          tried |-> <<"pdfplumber">>]
    ELSE [out |-> [success |-> FALSE, error |-> "PDF processing failed",
                   filename |-> filename],
          tried |-> <<"pdfplumber">>]

\* tried is history: the extractors invoked, in order.  text_content is one
\* list for both attempts: what pdfplumber appended before it raised stays in
\* front of what PyPDF2 appends.
process_pdf(file_bytes, filename) ==
    LET pages == file_bytes.pages
        first == Extracted(pages, file_bytes.plumber, PlumberPage)
        second == first \o Extracted(pages, file_bytes.pypdf, PyPdfPage)
    IN  IF ~ExtractorRaises(pages, file_bytes.plumber)
        THEN [out |-> PdfSuccess(filename, first, Len(pages)),
              tried |-> <<"pdfplumber">>]
        ELSE IF ~ExtractorRaises(pages, file_bytes.pypdf)
        THEN [out |-> PdfSuccess(filename, second, Len(pages)),
              tried |-> <<"pdfplumber", "PyPDF2">>]
        ELSE [out |-> [success |-> FALSE, error |-> "PDF processing failed",
                       filename |-> filename],
              tried |-> <<"pdfplumber", "PyPDF2">>]

----------------------------------------------------------------------------
(* RAGService.index_document *)

\* chunk_size=1000, overlap=200 at the call of chunk_text
IndexChunkSize == 1000
IndexOverlap == 200
\* chunk[:100]
PreviewLen == 100
\* self.model.get_sentence_embedding_dimension()
EmbeddingDim == Len(Embed(<< >>))

\* f"{doc_id}_chunk_{i}" for i in range(n)
ChunkId(doc_id, i) == <<doc_id, "_chunk_", i>>
ChunkIds_FromOne(doc_id, n) == [k \in 1..n |-> ChunkId(doc_id, k)]
ChunkIds(doc_id, n) == [k \in 1..n |-> ChunkId(doc_id, k - 1)]

\* os.path.basename(file_path)
basename(file_path) == file_path.stem \o file_path.ext

\* lines 152-179: what index_document hands to collection.add
index_add(file_path, document_type, metadata, doc_data, cks) ==
    LET base_metadata ==
            [k \in DOMAIN metadata \cup
                   {"source_file", "document_type", "file_type", "total_chunks"} |->
                CASE k = "source_file" -> basename(file_path)
                  [] k = "document_type" -> document_type
                  [] k = "file_type" -> GetOr(doc_data, "file_type", "unknown")
                  [] k = "total_chunks" -> Len(cks)
                  [] OTHER -> metadata[k]]
        doc_id == GetOr(base_metadata, "doc_id", basename(file_path))
    IN  [doc_id |-> doc_id,
         base_metadata |-> base_metadata,
         ids |-> ChunkIds(doc_id, Len(cks)),
         embeddings |-> generate_embeddings(cks),
         documents |-> cks,
         metadatas |->
            [i \in 1..Len(cks) |->
                [k \in DOMAIN base_metadata \cup {"chunk_index", "chunk_text_preview"} |->
                    CASE k = "chunk_index" -> i - 1
                      [] k = "chunk_text_preview" -> PySlice(cks[i], 0, PreviewLen)
                      [] OTHER -> base_metadata[k]]]]

\* lines 138-188, after extraction and chunking
index_chunks(st, file_path, document_type, metadata, doc_data, cks, policy) ==
    LET cname == CollectionOf(document_type)
        a == index_add(file_path, document_type, metadata, doc_data, cks)
    IN  IF cname = "None"
        THEN [out |-> Return([success |-> FALSE, error |-> "Unknown document type"]),
              store |-> st]
        ELSE LET added == collection_add(st[cname], a.ids, a.embeddings, a.documents,
                                         a.metadatas, policy)
             IN  IF added.raised
                 THEN [out |-> Raise("add failed"), store |-> st]
                 ELSE [out |-> Return([success |-> TRUE,
                                       document_type |-> document_type,
                                       chunks_indexed |-> Len(cks),
                                       embedding_dim |-> EmbeddingDim,
                                       doc_id |-> a.doc_id,
                                       metadata |-> a.base_metadata]),
                       store |-> [st EXCEPT ![cname] = added.coll]]

\* RAGService.index_document(file_path, document_type, metadata)
index_document(st, file_path, document_type, metadata, policy) ==
    LET called == process_file_call(<<file_path>>)
    IN  IF called.kind = "raise"
        THEN [out |-> called, store |-> st]
        ELSE LET doc_data == called.value
             IN  IF ~Truthy(Get(doc_data, "text"))
                 THEN [out |-> Return([success |-> FALSE,
                                       error |-> "Failed to extract text from document"]),
                       store |-> st]
                 ELSE LET cks == chunk_text(doc_data.text, IndexChunkSize, IndexOverlap)
                      IN  IF cks = << >>
                          THEN [out |-> Return([success |-> FALSE,
                                                error |-> "No chunks generated from document"]),
                                store |-> st]
                          ELSE index_chunks(st, file_path, document_type, metadata,
                                            doc_data, cks, policy)

----------------------------------------------------------------------------
(* DocumentManager.create_sample_data: the sample documents.  Every character
   other than a blank, a newline, '.', '!' and '?' is written "a": chunk_text
   tells no other characters apart. *)

\* rfq_dubai_marina_001: the 1048 characters of its 'content'
sample_rfqs_content_1 ==
    <<"\n"," "," "," "," "," "," "," "," "," "," "," "," "," "," "," "," ","a","a","a","a","a","a","a"," ",
      "a","a","a"," ","a","a","a","a","a","a","a","a","a"," ","a"," ","a","a","a","a","a","a","a","a","a",
      "a"," ","a","a","a","a","a","a","a","a"," ","a","a","a","a","a","a","a","a","a","a","a","a","\n","\n",
      " "," "," "," "," "," "," "," "," "," "," "," "," "," "," "," ","a","a","a","a","a","a","a","a"," ",
      "a","a","a","a","a"," ","a","a","a","a","a","a"," ","a","a","a","a","a"," ","a","a","a","a","a","a",
      "a","\n"," "," "," "," "," "," "," "," "," "," "," "," "," "," "," "," ","a","a","a","a","a","a","a",
      "a","a"," ","a","a","a","a","a"," ","a","a","a","a","a","a","a"," ","a","a","a","a","a","a"," ","a",
      "a","a","\n"," "," "," "," "," "," "," "," "," "," "," "," "," "," "," "," ","a","a","a","a","a","a",
      "a"," ","a","a","a"," ","a","a","a","a","a","a","a","\n","\n"," "," "," "," "," "," "," "," "," "," ",
      " "," "," "," "," "," ","a","a","a","a","a"," ","a","a"," ","a","a","a","a","a","\n"," "," "," "," ",
      " "," "," "," "," "," "," "," "," "," "," "," ","a"," ","a","a","a","a","a","a","a","a","a","a","a",
      "a"," ","a","a"," ","a","a","a","a","a","a","a","a"," ","a","a","a","a","a","a","a","a","a"," ","a",
      "a","a","a","a","\n"," "," "," "," "," "," "," "," "," "," "," "," "," "," "," "," ","a"," ","a","a",
      "a","a","a"," ","a","a","a","a","a","a","a","a"," ","a","a","a","a","a"," ","a","a","a","a","a","a",
      "a"," ","a","a"," ","a","a","\n"," "," "," "," "," "," "," "," "," "," "," "," "," "," "," "," ","a",
      " ","a","a","a","a","a","a","a","a"," ","a","a","a","a","a","a","a","a","a","a","a"," ","a","a","a",
      "a","a","a"," ","a","a","a","a","a","a"," ","a","a","a","a","a","a","a"," ","a","a","a"," ","a","a",
      "a","a","a","a","a","\n"," "," "," "," "," "," "," "," "," "," "," "," "," "," "," "," ","a"," ","a",
      "a","a","a","a","a","a","a"," ","a","a","a","a","a","a","a","a"," ","a","a","a","a"," ","a","a","a",
      "a","a","a","a"," ","a","a","a","a","a","a","a","a","a","\n"," "," "," "," "," "," "," "," "," "," ",
      " "," "," "," "," "," ","a"," ","a","a","a","a"," ","a","a","a","a"," ","a","a","a","a","a","a","a",
      "a","a","a","a","a","a"," ","a","a","a","a","a","a","a","a","\n","\n"," "," "," "," "," "," "," "," ",
      " "," "," "," "," "," "," "," ","a","a","a","a","a","a","a","a","a"," ","a","a","a","a","a","a","a",
      "a","a","a","a","a","a","\n"," "," "," "," "," "," "," "," "," "," "," "," "," "," "," "," ","a"," ",
      "a","a","a","a","a","a","a","a","a","a","a"," ","a","a","a","a","a"," ","a","a","a","a","a","a","a",
      "a","a","a"," ","a","a","a","a"," ","a","a","a","a","a","a","a","a"," ","a","a","a","a","a","a","\n",
      " "," "," "," "," "," "," "," "," "," "," "," "," "," "," "," ","a"," ","a","a","a","a","a","a","a",
      "a","a","a"," ","a","a","a","a","a","a","a","a","a","a"," ","a","a","a","a","a","a","a","a"," ","a",
      "a","a","a","a"," ","a","a","a","a"," ","a","a","a","a","a"," ","a","a","a","a","a","a","a","a","\n",
      " "," "," "," "," "," "," "," "," "," "," "," "," "," "," "," ","a"," ","a","a","a","a","a","a","a",
      " ","a","a","a","a","a","a","a"," ","a","a","a","a"," ","a","a","a","a","a","a"," ","a","a","a","a",
      " ","a","a","a","a","a","a","a","a","a","a","a","a","a","a","a","a"," ","a","a","a","a","a","a","a",
      "\n"," "," "," "," "," "," "," "," "," "," "," "," "," "," "," "," ","a"," ","a","a","a","a"," ","a",
      "a","a","a"," ","a","a","a","a","a"," ","a","a","a","a","a","a","a","a","a","a","a"," ","a","a","a",
      "a","a","a","a","a","a"," ","a","a","a"," ","a","a","a","a"," ","a","a","a","a","a","a"," ","a","a",
      "a","a","a","a","a","\n","\n"," "," "," "," "," "," "," "," "," "," "," "," "," "," "," "," ","a","a",
      "a","a","a","a","a","a","a"," ","a","a"," ","a","a","a","a","a","a"," ","a","a","a","a"," ","a","a",
      "a","a","a","a","a","a","a","a","a","a","\n"," "," "," "," "," "," "," "," "," "," "," "," "," "," ",
      " "," ","a","a","a","a","a","a"," ","a","a","a","a","a","a"," ","a","a","a","a"," ","a"," ","a","a",
      "a","a","\n"," "," "," "," "," "," "," "," "," "," "," "," "," "," "," "," ","a","a","a","a","a","a",
      "a","a","a","a"," ","a","a","a","a","a","a","a","a","a"," ","a","a","a","a","a","a","a"," ","a","a",
      "a"," ","a","a","a","a","\n"," "," "," "," "," "," "," "," "," "," "," "," "," "," "," "," ">>

\* rfq_highway_002: the 903 characters of its 'content'
sample_rfqs_content_2 ==
    <<"\n"," "," "," "," "," "," "," "," "," "," "," "," "," "," "," "," ","a","a","a","a","a","a","a"," ",
      "a","a","a"," ","a","a","a","a","a","a","a","a"," ","a"," ","a","a","a","a","a","a","a","a","a","a",
      "a","a","a","a"," ","a","a","a","a","a","a","a","\n","\n"," "," "," "," "," "," "," "," "," "," "," ",
      " "," "," "," "," ","a","a","a","a","a","a","a","a"," ","a","a","a"," ","a","a","a","a","a"," ","a",
      "a","a","a","a","a","a"," ","a","a","a","a","a","a","a","a","a","\n"," "," "," "," "," "," "," "," ",
      " "," "," "," "," "," "," "," ","a","a","a","a","a","a","a","a","a"," ","a","a","a"," ","a","a","a",
      "a","a","a"," ","a","a","a","\n"," "," "," "," "," "," "," "," "," "," "," "," "," "," "," "," ","a",
      "a","a","a","a","a","a"," ","a","a","a"," ","a","a","a","a","a","a","a","\n","\n"," "," "," "," "," ",
      " "," "," "," "," "," "," "," "," "," "," ","a","a","a","a","a"," ","a","a"," ","a","a","a","a","a",
      "\n"," "," "," "," "," "," "," "," "," "," "," "," "," "," "," "," ","a"," ","a","a","a","a","a","a",
      "a","a","a"," ","a","a"," ","a","a","a","a","a","a","a","a"," ","a","a","a","a","a","a","a"," ","a",
      "a","a","a","a","a","a"," ","a","a","a"," ","a","a","a","\n"," "," "," "," "," "," "," "," "," "," ",
      " "," "," "," "," "," ","a"," ","a","a","a","a","a","a"," ","a","a","a","a","a","a","a","a","a","a",
      " ","a","a","a","a"," ","a","a","a","a","a","a","a","a","a"," ","a","a","a","a","a","\n"," "," "," ",
      " "," "," "," "," "," "," "," "," "," "," "," "," ","a"," ","a"," ","a","a","a","a","a"," ","a","a",
      "a","a","a","a","a","a","a","a","a","a"," ","a","a","a","a"," ","a","a","a","a","a","\n"," "," "," ",
      " "," "," "," "," "," "," "," "," "," "," "," "," ","a"," ","a","a","a","a","a","a"," ","a","a","a",
      "a","a","a","a","a"," ","a","a","a"," ","a","a","a","a"," ","a","a","a","a","a","a","a","\n"," "," ",
      " "," "," "," "," "," "," "," "," "," "," "," "," "," ","a"," ","a","a","a","a","a","a","a","a"," ",
      "a","a","a"," ","a","a","a","a","a","a","a","a","a"," ","a","a","a","a","a","a","a","a","a","a","\n",
      "\n"," "," "," "," "," "," "," "," "," "," "," "," "," "," "," "," ","a","a","a","a","a","a","a","a",
      "a"," ","a","a","a","a","a","a","a","a","a","a","a","a","a","\n"," "," "," "," "," "," "," "," "," ",
      " "," "," "," "," "," "," ","a"," ","a","a","a","a","a","a","a"," ","a","a","a","a","a","a","a","a",
      " ","a","a","a","a","a","a","a","a"," ","a","a","a","a","a","a","\n"," "," "," "," "," "," "," "," ",
      " "," "," "," "," "," "," "," ","a"," ","a","a","a","a","a","a"," ","a","a","a","a","a","a","a","a",
      "a","a","a","a"," ","a","a","a"," ","a"," ","a","a","a","a","a","a","a","a","a","a","\n"," "," "," ",
      " "," "," "," "," "," "," "," "," "," "," "," "," ","a"," ","a","a","a","a","a","a","a"," ","a","a",
      "a","a","a","a","a","a","a","a"," ","a","a","a","a","a","a"," ","a","a","a","a","a","a","a","a","a",
      "a","a","a","\n"," "," "," "," "," "," "," "," "," "," "," "," "," "," "," "," ","a"," ","a","a","a",
      "a","a","a","a","a","a","a","a","a","a"," ","a","a","a","a","a","a"," ","a","a","a","a","a","a","a",
      "a","a","a","\n","\n"," "," "," "," "," "," "," "," "," "," "," "," "," "," "," "," ","a","a","a","a",
      "a","a","a","a","a"," ","a","a"," ","a","a","a","a","a","a","\n"," "," "," "," "," "," "," "," "," ",
      " "," "," "," "," "," "," ","a","a","a","a","a","a"," ","a","a","a","a","a","a"," ","a","a","a","a",
      " ","a"," ","a","a","a","a","\n"," "," "," "," "," "," "," "," "," "," "," "," "," "," "," "," ","a",
      "a","a","a","a","a","a","a","a","a"," ","a","a","a","a","a","a","a","a","a"," ","a","a","a","a","a",
      "a","a","a"," ","a","a"," ","a","a","a","a","\n"," "," "," "," "," "," "," "," "," "," "," "," "," ",
      " "," "," ">>

\* rfq_stadium_004: the 932 characters of its 'content'
sample_rfqs_content_3 ==
    <<"\n"," "," "," "," "," "," "," "," "," "," "," "," "," "," "," "," ","a","a","a","a","a","a","a"," ",
      "a","a","a"," ","a","a","a","a","a","a","a","a","a"," ","a"," ","a","a","a","a","a","a"," ","a","a",
      "a","a","a","a","a","a","\n","\n"," "," "," "," "," "," "," "," "," "," "," "," "," "," "," "," ","a",
      "a","a","a","a","a","a","a"," ","a","a","a","a","a"," ","a","a","a","a","a","a"," ","a","a","a","a",
      "a","a","a","\n"," "," "," "," "," "," "," "," "," "," "," "," "," "," "," "," ","a","a","a","a","a",
      "a","a","a","a"," ","a","a","a","a","a"," ","a","a","a","a","a","\n"," "," "," "," "," "," "," "," ",
      " "," "," "," "," "," "," "," ","a","a","a","a","a","a","a"," ","a","a","a"," ","a","a","a","a","a",
      "a","a","\n","\n"," "," "," "," "," "," "," "," "," "," "," "," "," "," "," "," ","a","a","a","a","a",
      " ","a","a"," ","a","a","a","a","a","\n"," "," "," "," "," "," "," "," "," "," "," "," "," "," "," ",
      " ","a"," ","a","a","a","a","a","a","a","a","a","a","a","a","a"," ","a","a","a","a","a","a"," ","a",
      "a","a","a","a","a","a"," ","a","a","a","a"," ","a","a","a","a","a","a"," ","a","a","a","a","a","a",
      "a"," ","a","a","a","a","a","a","a","a","\n"," "," "," "," "," "," "," "," "," "," "," "," "," "," ",
      " "," ","a"," ","a","a","a","a","a","a","a","a","a","a","a","a","a","a","a","a"," ","a","a","a","a",
      "a"," ","a","a","a"," ","a","a","a","a","a"," ","a","a","a","a","a","a","a","a","a","a","\n"," "," ",
      " "," "," "," "," "," "," "," "," "," "," "," "," "," ","a"," ","a","a","a","a","a","a"," ","a","a",
      "a","a","a","a"," ","a","a","a","a","a","a","a"," ","a","a","a","a"," ","a","a","a","a","a","a","a",
      "a","a","a"," ","a","a","a"," ","a","a","a","a","a","a","a","a","a","a"," ","a","a","a","a","a","a",
      "\n"," "," "," "," "," "," "," "," "," "," "," "," "," "," "," "," ","a"," ","a","a","a"," ","a","a",
      "a","a","a","a","a"," ","a","a","a"," ","a","a","a","a","a","a","a"," ","a","a","a","a","a","a","a",
      " ","a","a","a","a","a","\n"," "," "," "," "," "," "," "," "," "," "," "," "," "," "," "," ","a"," ",
      "a","a","a","a","a","a","a","a","a","a","a","a","a","a","a","a"," ","a","a","a","a","a","a","a","a",
      "a","a","a"," ","a","a","a","a","a","a","a","\n","\n"," "," "," "," "," "," "," "," "," "," "," "," ",
      " "," "," "," ","a","a","a","a","a","a","a","a","a"," ","a","a","a","a","a","a","a","a","a","a","a",
      "a","a","\n"," "," "," "," "," "," "," "," "," "," "," "," "," "," "," "," ","a"," ","a","a","a","a",
      "a","a","a","a","a","a","a"," ","a","a","a","a"," ","a","a","a","a","a","a","a","a","a","\n"," "," ",
      " "," "," "," "," "," "," "," "," "," "," "," "," "," ","a"," ","a","a","a","a","a","a","a","a","a",
      "a","a","a","a","a","a","a","a","a"," ","a","a","a","a","a","a","a","a","a","a","a","\n"," "," "," ",
      " "," "," "," "," "," "," "," "," "," "," "," "," ","a"," ","a","a","a","a","a","a","a","a"," ","a",
      "a","a","a","a","a","a","a","a"," ","a","a","a"," ","a","a","a","a","a","a","a","a","\n"," "," "," ",
      " "," "," "," "," "," "," "," "," "," "," "," "," ","a"," ","a","a","a","a","a","a","a","a","a","a",
      " ","a","a","a","a","a","a","a","a","a","a"," ","a","a","a"," ","a","a","a","a","a","a","a","a"," ",
      "a","a","a","a","a","a","a","\n","\n"," "," "," "," "," "," "," "," "," "," "," "," "," "," "," "," ",
      "a","a","a","a","a","a","a","a","a"," ","a","a"," ","a","a","a","a","a","a","\n"," "," "," "," "," ",
      " "," "," "," "," "," "," "," "," "," "," ","a","a","a","a","a","a"," ","a","a","a","a","a","a"," ",
      "a","a","a","a"," ","a"," ","a","a","a","a","\n"," "," "," "," "," "," "," "," "," "," "," "," "," ",
      " "," "," ","a","a","a","a","a","a","a","a","a","a"," ","a","a","a","a","a","a","a","a","a"," ","a",
      "a","a","a","a","a","a"," ","a","a","a"," ","a","a","a","a","\n"," "," "," "," "," "," "," "," "," ",
      " "," "," "," "," "," "," ">>

\* bid_luxury_tower_win: the 1621 characters of its 'content'
sample_bids_content_1 ==
    <<"\n"," "," "," "," "," "," "," "," "," "," "," "," "," "," "," "," ","a","a","a","a","a","a","a"," ",
      "a","a","a"," ","a","a","a","a","a","a","a","a"," ","a"," ","a","a","a","a","a","a"," ","a","a","a",
      "a","a","a","a","a","a","a","a"," ","a","a","a","a","a","\n","\n"," "," "," "," "," "," "," "," "," ",
      " "," "," "," "," "," "," ","a","a","a","a","a","a","a","a","a"," ","a","a","a","a","a","a","a","a",
      "\n"," "," "," "," "," "," "," "," "," "," "," "," "," "," "," "," ","a","a","a"," ","a","a","a","a",
      "a","a","a"," ","a","a"," ","a","a","a","a","a","a","a"," ","a","a"," ","a","a","a","a","a","a"," ",
      "a","a","a","a"," ","a","a","a","a","a","a","a","a","a","a","a","a","a"," ","a","a","a","a","a","a",
      "a","a"," ","a","a","a"," ","a","a","a"," ","a","a","a","a","a","a","a","a","a","a","a","a","\n"," ",
      " "," "," "," "," "," "," "," "," "," "," "," "," "," "," ","a","a"," ","a","a","a"," ","a","a","a",
      "a","a","a","a"," ","a","a","a","a","a","a","a","a","a","a","a"," ","a","a","a","a","a","."," ","a",
      "a","a","a"," ","a","a","a"," ","a","a","a","a","a"," ","a","a"," ","a","a","a","a","a","a","a","a",
      "a","a"," ","a","a"," ","a","a","a","a","a","a","a","a","a","\n"," "," "," "," "," "," "," "," "," ",
      " "," "," "," "," "," "," ","a","a","a","a","a","a","a","a","a","a","a","a"," ","a","a","a","a","a",
      "a"," ","a","a","a"," ","a","a","a"," ","a","a","a","a","a","a","a"," ","a","a"," ","a","a","a","a",
      "a"," ","a","a","a","a","a","a"," ","a","a","a","a","a","a","a","a","a"," ","a","a"," ","a","a","a",
      "a","a","a","a","a","a","a","\n"," "," "," "," "," "," "," "," "," "," "," "," "," "," "," "," ","a",
      "a","a","a","a","a"," ","a","a","a","a","a","a","a","a"," ","a","a"," ","a","a","a","a"," ","a","a",
      "a"," ","a","a","a","a","a","a"," ","a","a","a","a","a","a",".","\n","\n"," "," "," "," "," "," "," ",
      " "," "," "," "," "," "," "," "," ","a","a","a","a","a","a","a","a","a"," ","a","a","a","a","a","a",
      "a","a","a","\n"," "," "," "," "," "," "," "," "," "," "," "," "," "," "," "," ","a","a"," ","a","a",
      "a","a","a","a","a"," ","a"," ","a","a","a","a","a","a"," ","a","a","a","a","a","a","a","a","a","a",
      "a","a"," ","a","a","a","a","a","a","a","a","a","a","a"," ","a","a","a","a","a","a","a","a","a","a",
      "\n"," "," "," "," "," "," "," "," "," "," "," "," "," "," "," "," ","a"," ","a","a","a","a","a","a",
      "a","a"," ","a","a","a"," ","a","a","a","a","a","a","a","a","a"," ","a","a","a","a","a","a","a","a",
      "a","a","a"," ","a","a","a","a","a","a","a","a","a"," ","a","a","a"," ","a","a","a","a","a","a","a",
      "a","a","a","a","a","\n"," "," "," "," "," "," "," "," "," "," "," "," "," "," "," "," ","a"," ","a",
      "a","a","a","a","a","a","a","a","a","a","a"," ","a","a","a","a","a","a","a","a"," ","a","a","a","a",
      "a","a","a","a"," ","a","a"," ","a","a","a","a","a","a","a","a"," ","a","a","a","a"," ","a","a","a",
      "a","a","a","a","a","a","\n"," "," "," "," "," "," "," "," "," "," "," "," "," "," "," "," ","a"," ",
      "a","a","a","a","a","a","a","a","a","a","a","a","a"," ","a","a","a","a","a","a","a","a","a","a"," ",
      "a","a","a"," ","a","a","a","a","a","a"," ","a","a","a","a","a","a","a","a","a","a","a","a","\n"," ",
      " "," "," "," "," "," "," "," "," "," "," "," "," "," "," ","a"," ","a","a","a"," ","a","a","a","a",
      " ","a","a","a","a","a","a","a"," ","a","a","a","a","a","a","a","a","a","a"," ","a","a","a","a","a",
      "a","\n","\n"," "," "," "," "," "," "," "," "," "," "," "," "," "," "," "," ","a","a","a","a","a","a",
      "a"," ","a","a","a","a","a","\n"," "," "," "," "," "," "," "," "," "," "," "," "," "," "," "," ","a",
      " ","a","a","a","a","a","a","a"," ","a","a","a","a","a","a","a","a"," ","a","a","a"," ","a","a","a",
      "a","a"," ","a","a"," ","a","a","a","a","a","a","a","a","a"," ","a","a","a","a","a","a","a","a","a",
      "a","a","a","\n"," "," "," "," "," "," "," "," "," "," "," "," "," "," "," "," ","a"," ","a","a","a",
      "a"," ","a","a","a","a","a","a","a","a","a"," ","a","a","a","a"," ","a","a"," ","a","a","a","a","a",
      "a","a","a","a","\n"," "," "," "," "," "," "," "," "," "," "," "," "," "," "," "," ","a"," ","a","a",
      "a","a","a","a"," ","a","a","a","a","a","a","a","a"," ","a","a","a","a"," ","a","a","a","a","a","a",
      "a"," ","a","a","a","a","a","a","a","a","a","\n"," "," "," "," "," "," "," "," "," "," "," "," "," ",
      " "," "," ","a"," ","a","a","a","a","a","a","a"," ","a","a","a","a","a","a","a","a"," ","a","a","a",
      " ","a","a","a","a","a"," ","a","a","a","a","a"," ","a","a","a","a","\n","\n"," "," "," "," "," "," ",
      " "," "," "," "," "," "," "," "," "," ","a","a","a","a","a","a","a","a","a"," ","a","a"," ","a","a",
      "a","a","a","a"," ","a","a"," ","a","a","a","a","a","a"," ","a","a","a","a","a"," ","a","a"," ","a",
      "a","a","a","a","a","a","a","a","\n"," "," "," "," "," "," "," "," "," "," "," "," "," "," "," "," ",
      "a","a","a","a","a"," ","a","a","a","a","a","a","a","a","a","a","a"," ","a","a","a",".","a","a"," ",
      "a","a","a","a","a","a","a"," ","a","a","a","a","a","a","a","\n","\n"," "," "," "," "," "," "," "," ",
      " "," "," "," "," "," "," "," ","a","a","a","a"," ","a","a","a","a","a","a","a","a","a","a","a","\n",
      " "," "," "," "," "," "," "," "," "," "," "," "," "," "," "," ","a"," ","a","a","a","a","a","a","a",
      "a","a","a","a","a","a"," ","a","a","a","a","a","a","a","a","a"," ","a","a","a","a","a","a","a","a",
      "\n"," "," "," "," "," "," "," "," "," "," "," "," "," "," "," "," ","a"," ","a","a","a","a","a","a",
      "a"," ","a","a","a","a","a","a","a","a","a","a","a"," ","a","a","a","a","a","a","a","a","\n"," "," ",
      " "," "," "," "," "," "," "," "," "," "," "," "," "," ","a"," ","a","a","a","a","a","a"," ","a","a",
      "a","a","a"," ","a","a","a","a","a","a"," ","a","a","a","a","a","a","a","\n"," "," "," "," "," "," ",
      " "," "," "," "," "," "," "," "," "," ","a"," ","a","a","a","a","a","a"," ","a","a","a","a","a","a",
      "a","a"," ","a","a","a","a","a","a","a","a","a","\n","\n"," "," "," "," "," "," "," "," "," "," "," ",
      " "," "," "," "," ","a","a","a","a"," ","a","a","a","a","a","a","a"," ","a","a","a","a","a","a"," ",
      "a","a","a","a","a","a","a","a","a"," ","a","a","a","a"," ","a","a","a"," ","a","a","a","a","a","a",
      "a","a","a"," ","a","a"," ","a","a","a","a","a","a","a","a","a","a"," ","a","a","a","a","a","a","\n",
      " "," "," "," "," "," "," "," "," "," "," "," "," "," "," "," ","a","a","a","a","a","a","a","a","a",
      "a","a","a"," ","a","a","a","a","a","a","a","a","a"," ","a","a","a","a","a","a","a"," ","a","a","a",
      "a","a","a","a","a"," ","a","a"," ","a","a","a","a","a"," ","a","a","a"," ","a","a","a"," ","a","a",
      "a","a","a",".","\n"," "," "," "," "," "," "," "," "," "," "," "," "," "," "," "," ">>

\* bid_highway_proposal: the 1687 characters of its 'content'
sample_bids_content_2 ==
    <<"\n"," "," "," "," "," "," "," "," "," "," "," "," "," "," "," "," ","a","a","a","a","a","a","a","a",
      " ","a"," ","a","a","a","a","a","a","a"," ","a","a","a","a","a","a","a","a","a","a","a","a","a","a",
      " ","a","a","a","a","a","a","a","a","a","a","a","\n","\n"," "," "," "," "," "," "," "," "," "," "," ",
      " "," "," "," "," ","a","a","a","a","a","a","a"," ","a","a","a","a","a","a","a","a","a","a","a","a",
      "a","a","a","\n"," "," "," "," "," "," "," "," "," "," "," "," "," "," "," "," ","a","a"," ","a"," ",
      "a","a","a","a","a","a","a"," ","a","a","a","a","a","a","a","a","a","a","a","a","a","a"," ","a","a",
      "a","a","a","a","a","a","a","a"," ","a","a"," ","a","a","a"," ","a","a","a","a","a","a"," ","a","a",
      "a","a","a"," ","a","a"," ","a","a","a","a"," ","a","a","a","a","a","a","a","a","a","a","a","a","\n",
      " "," "," "," "," "," "," "," "," "," "," "," "," "," "," "," ","a","a","a","a","a","a","a","a","a",
      " ","a","a","a","a"," ","a","a","a"," ","a","a"," ","a","a"," ","a","a","a","a","a","a","a"," ","a",
      "a","a","a","a","a","a","a"," ","a","a","a","a","a","a"," ","a","a","a"," ","a","a","a"," ","a","a",
      "a"," ","a","a","a"," ","a","a","a","a","a","a",".","\n"," "," "," "," "," "," "," "," "," "," "," ",
      " "," "," "," "," ","a","a","a"," ","a","a","a","a","a"," ","a","a","a","a","a","a"," ","a","a","a",
      "a","a","a","a","a","a","\n"," "," "," "," "," "," "," "," "," "," "," "," "," "," "," "," ","a"," ",
      "a","a","a","a","a","a","a","a"," ","a","a","a"," ","a","a","a","a","a","a","a"," ","a","a","a","a",
      "a","a","a","a","a"," ","a","a","a","a","a","a","\n"," "," "," "," "," "," "," "," "," "," "," "," ",
      " "," "," "," ","a"," ","a","a","a","a","a","a","a"," ","a","a","a","a"," ","a","a","a","a"," ","a",
      "a","a","a","a","a","a","a","a","a","a"," ","a","a","a","a","a","a","\n"," "," "," "," "," "," "," ",
      " "," "," "," "," "," "," "," "," ","a"," ","a","a","a"," ","a","a","a","a","a"," ","a","a","a","a",
      "a","a","a"," ","a","a","a","a"," ","a","a","a","a","a","a","a","a","a","a","a","a"," ","a","a","a",
      "a","a","a","\n","\n"," "," "," "," "," "," "," "," "," "," "," "," "," "," "," "," ","a","a","a","a",
      "a","a","a","a","a"," ","a","a","a","a","a","a","a","a","a","a","a","a","\n"," "," "," "," "," "," ",
      " "," "," "," "," "," "," "," "," "," ","a","."," ","a","a","a","a","a","a"," ","a","a","a"," ","a",
      "a","a","a","a","a","a","a"," ","a","a","a","a","a"," ","a","a","a","a","a","a"," ","a","a","a","a",
      "\n"," "," "," "," "," "," "," "," "," "," "," "," "," "," "," "," "," "," "," ","a"," ","a","a","a",
      "a","a","a","a","a"," ","a","a","a","a","a","a","a","a","a","a","a","a","a"," ","a","a","a","a","a",
      "a","\n"," "," "," "," "," "," "," "," "," "," "," "," "," "," "," "," "," "," "," ","a"," ","a","a",
      "a","a","a","a","a","a","a","a","a","a"," ","a","a","a","a","a","a","a","a","a","a","a","a","a","\n",
      " "," "," "," "," "," "," "," "," "," "," "," "," "," "," "," "," "," "," ","a"," ","a","a","a","a",
      "a","a","a"," ","a","a","a","a","a","a","a"," ","a","a","a"," ","a","a","a","a","a","a","a","a","a",
      "a","a","a","\n","\n"," "," "," "," "," "," "," "," "," "," "," "," "," "," "," "," ","a","."," ","a",
      "a","a","a","a","a","a","a","a","a"," ","a","a","a"," ","a","a","a","a","a","a","a","a","a","a"," ",
      "a","a","a","a","a","a","a"," ","a","a","a","a","\n"," "," "," "," "," "," "," "," "," "," "," "," ",
      " "," "," "," "," "," "," ","a"," ","a","a","a","a"," ","a","a","a","a","a","a","a","a"," ","a","a",
      "a"," ","a","a","a","a","a","a","a","\n"," "," "," "," "," "," "," "," "," "," "," "," "," "," "," ",
      " "," "," "," ","a"," ","a","a","a","a","a","a","a","a"," ","a","a","a","a","a","a"," ","a","a","a",
      "a","a","a","a","a","a","a","a","a","\n"," "," "," "," "," "," "," "," "," "," "," "," "," "," "," ",
      " "," "," "," ","a"," ","a","a","a","a","a","a","a","a"," ","a","a","a","a","a","a","a","a","a","a",
      "a","\n","\n"," "," "," "," "," "," "," "," "," "," "," "," "," "," "," "," ","a","."," ","a","a","a",
      "a","a","a","a","a"," ","a","a","a","a","a","a","a","a","a","a","a","a"," ","a","a","a","a","a","a",
      "a"," ","a","a","a","a","a","\n"," "," "," "," "," "," "," "," "," "," "," "," "," "," "," "," "," ",
      " "," ","a"," ","a","a","a","a"," ","a","a","a","a","a","a"," ","a","a","a","a","a","a","\n"," "," ",
      " "," "," "," "," "," "," "," "," "," "," "," "," "," "," "," "," ","a"," ","a","a","a","a","a","a",
      "a"," ","a","a","a","a","a","a","a","a"," ","a","a","a","a","a","a","\n"," "," "," "," "," "," "," ",
      " "," "," "," "," "," "," "," "," "," "," "," ","a"," ","a","a","a","a","a","a","a"," ","a","a","a",
      "a","a","a","a"," ","a","a"," ","a","a","a","a"," ","a","a","a","a","a","\n","\n"," "," "," "," "," ",
      " "," "," "," "," "," "," "," "," "," "," ","a","."," ","a","a","a","a","a","a","a","a","a"," ","a",
      "a","a","a","a"," ","a","a","a","a","a","a","a"," ","a","a","a","a","a","a","\n"," "," "," "," "," ",
      " "," "," "," "," "," "," "," "," "," "," "," "," "," ","a"," ","a","a","a","a"," ","a","a","a","a",
      "a","a","a","a"," ","a","a","a"," ","a","a","a","a","a","a","a","\n"," "," "," "," "," "," "," "," ",
      " "," "," "," "," "," "," "," "," "," "," ","a"," ","a","a","a","a","a","a","a","a"," ","a","a","a",
      "a","a","a","a","a","a","a","a","a","\n"," "," "," "," "," "," "," "," "," "," "," "," "," "," "," ",
      " "," "," "," ","a"," ","a","a","a","a","a","a","a","a","a","a","a"," ","a","a","a"," ","a","a","a",
      "a","a"," ","a","a","a","a","a","a","a","\n","\n"," "," "," "," "," "," "," "," "," "," "," "," "," ",
      " "," "," ","a","a","a","a","a","a"," ","a","a","a"," ","a","a","a","a","a","a","a","a","a","a","a",
      "a","\n"," "," "," "," "," "," "," "," "," "," "," "," "," "," "," "," ","a"," ","a","a","a","a","a",
      "a","a","a","a","a","a","a","a"," ","a","a","a","a","a","a"," ","a","a","a","a","a","a","a","\n"," ",
      " "," "," "," "," "," "," "," "," "," "," "," "," "," "," ","a"," ","a","a","a","a"," ","a","a","a",
      "a","a","a","a","a","a","a","a"," ","a","a","a","a","a","a","a","a","\n"," "," "," "," "," "," "," ",
      " "," "," "," "," "," "," "," "," ","a"," ","a","a","a","a","a"," ","a","a","a","a","a","a","a"," ",
      "a","a","a","a","a","a"," ","a","a","a","a","a","a","a","a","a","a","a","a","\n"," "," "," "," "," ",
      " "," "," "," "," "," "," "," "," "," "," ","a"," ","a","a","a","a","a","a","a"," ","a","a","a","a",
      "a","a","a","a","a","a"," ","a","a","a","a","\n","\n"," "," "," "," "," "," "," "," "," "," "," "," ",
      " "," "," "," ","a","a","a","a","a","a","a","a"," ","a","a","a","a","a","a","a","a","a","a","a"," ",
      "a","a","a",".","a","a","\n"," "," "," "," "," "," "," "," "," "," "," "," "," "," "," "," ","a","a",
      "a","a","a","a","a","a","a"," ","a","a"," ","a","a","a","a","a","a"," ","a","a"," ","a","a","a","a",
      "a"," ","a","a","a","a","a"," ","a","a"," ","a","a","a","a","a","a","a","a","a","\n"," "," "," "," ",
      " "," "," "," "," "," "," "," "," "," "," "," ">>

sample_rfqs ==
    << [content |-> sample_rfqs_content_1,
        metadata |-> [doc_id |-> "rfq_dubai_marina_001", project |-> "Dubai Marina"]],
       [content |-> sample_rfqs_content_2,
        metadata |-> [doc_id |-> "rfq_highway_002", project |-> "Highway Extension"]],
       [content |-> sample_rfqs_content_3,
        metadata |-> [doc_id |-> "rfq_stadium_004", project |-> "Qatar Stadium"]] >>

sample_bids ==
    << [content |-> sample_bids_content_1,
        metadata |-> [doc_id |-> "bid_luxury_tower_win", project |-> "Luxury Tower",
                      won |-> TRUE]],
       [content |-> sample_bids_content_2,
        metadata |-> [doc_id |-> "bid_highway_proposal", project |-> "Highway",
                      won |-> TRUE]] >>

\* the defaults of chunk_text's parameters
DefaultChunkSize == 1000
DefaultOverlap == 200

\* self.doc_processor.chunk_text(rfq['content']) for every sample, in order
sample_chunks(samples) ==
    [k \in 1..Len(samples) |->
        chunk_text(samples[k].content, DefaultChunkSize, DefaultOverlap)]

sample_rfq_chunks == sample_chunks(sample_rfqs)
sample_bid_chunks == sample_chunks(sample_bids)

\* the body of one "try:" of a loop: chunk, embed, add to the collection
index_sample_FirstChunk(coll, sample, cks, document_type, policy) ==
    collection_add(coll, <<ChunkId(sample.metadata.doc_id, 0)>>,
                   <<Embed(cks[1])>>, <<cks[1]>>,
                   <<[chunk_index |-> 0, document_type |-> document_type]>>, policy)

\* lines 301-320 and 331-349: what create_sample_data hands to collection.add
sample_add(sample, cks, document_type) ==
    LET doc_id == sample.metadata.doc_id
    IN  [ids |-> ChunkIds(doc_id, Len(cks)),
         embeddings |-> generate_embeddings(cks),
         documents |-> cks,
         metadatas |->
            [i \in 1..Len(cks) |->
                [k \in DOMAIN sample.metadata \cup {"chunk_index", "document_type"} |->
                    CASE k = "chunk_index" -> i - 1
                      [] k = "document_type" -> document_type
                      [] OTHER -> sample.metadata[k]]]]

index_sample(coll, sample, cks, document_type, policy) ==
    LET a == sample_add(sample, cks, document_type)
    IN  collection_add(coll, a.ids, a.embeddings, a.documents, a.metadatas, policy)

\* one "for ... in samples:" loop from sample k on; acc is
\* [coll, indexed, errors, chunks]: the collection, results[..._indexed],
\* len(results['errors']), and (history) the chunks of the samples counted in
\* indexed
RECURSIVE index_samples(_, _, _, _, _, _)
index_samples(acc, samples, sample_cks, k, document_type, policy) ==
    IF k > Len(samples) THEN acc
    ELSE LET added == index_sample(acc.coll, samples[k], sample_cks[k], document_type, policy)
             next == IF added.raised
                     THEN [acc EXCEPT !.errors = @ + 1]
                     ELSE [coll |-> added.coll,
                           indexed |-> acc.indexed + 1,
                           errors |-> acc.errors,
                           chunks |-> acc.chunks + Len(sample_cks[k])]
         IN  index_samples(next, samples, sample_cks, k + 1, document_type, policy)

LoopStart(coll) == [coll |-> coll, indexed |-> 0, errors |-> 0, chunks |-> 0]

\* DocumentManager.create_sample_data
create_sample_data(st, policy) ==
    LET rfqs == index_samples(LoopStart(st["rfq_documents"]), sample_rfqs,
                              sample_rfq_chunks, 1, "rfq", policy)
        bids == index_samples(LoopStart(st["historical_bids"]), sample_bids,
                              sample_bid_chunks, 1, "bid", policy)
    IN  [out |-> Return([success |-> TRUE,
                         rfqs_indexed |-> rfqs.indexed,
                         bids_indexed |-> bids.indexed,
                         errors |-> rfqs.errors + bids.errors,
                         total_indexed |-> rfqs.indexed + bids.indexed]),
         store |-> [st EXCEPT !["rfq_documents"] = rfqs.coll,
                              !["historical_bids"] = bids.coll],
         chunks |-> [c \in CollectionNames |->
                        CASE c = "rfq_documents" -> rfqs.chunks
                          [] c = "historical_bids" -> bids.chunks
                          [] OTHER -> 0]]

----------------------------------------------------------------------------
(* RAGService.search_similar *)

\* lines 236-245: one formatted result per row the query returned
FormatResults(rows) ==
    [i \in 1..Len(rows) |-> [id |-> rows[i].id,
                             document |-> rows[i].document,
                             metadata |-> rows[i].metadata,
                             distance |-> rows[i].distance,
                             similarity_score |-> 1 - rows[i].distance]]

QuerySize_Count(n_results, count) == count

\* line 232: n_results=min(n_results, collection.count())
QuerySize(n_results, count) == IF n_results < count THEN n_results ELSE count

search_similar(st, query, document_type, n_results) ==
    LET cname == CollectionOf(document_type)
    IN  IF cname = "None"
        THEN [success |-> FALSE, error |-> "Unknown document type"]
        ELSE IF collection_count(st[cname]) = 0
        THEN [success |-> TRUE, results |-> << >>, message |-> "No documents indexed"]
        ELSE LET query_embedding == generate_embeddings(<<query>>)[1]
                 rows == collection_query(st[cname], query_embedding,
                                          QuerySize(n_results, collection_count(st[cname])))
                 formatted_results == FormatResults(rows)
             IN  [success |-> TRUE, query |-> query, results |-> formatted_results,
                  total_found |-> Len(formatted_results)]

----------------------------------------------------------------------------
(* RAGService.get_context_for_bid *)

\* rfq_text[:1000]
ContextQueryLen == 1000

ContextQuery_Whole(rfq_text) == rfq_text

ContextQuery(rfq_text) == PySlice(rfq_text, 0, ContextQueryLen)

\* "if x_results['success']: context[...] = x_results['results']"
ResultsIfSuccess(found) == IF found.success THEN found.results ELSE << >>

\* queries is history: the query of each of the two searches, in order
get_context_for_bid(st, rfq_text, n_historical_bids, n_rfq_chunks) ==
    LET bid_results == search_similar(st, ContextQuery(rfq_text), "bid", n_historical_bids)
        rfq_results == search_similar(st, ContextQuery(rfq_text), "rfq", n_rfq_chunks)
        historical_bids == ResultsIfSuccess(bid_results)
        similar_rfqs == ResultsIfSuccess(rfq_results)
    IN  [out |-> Return([historical_bids |-> historical_bids,
                         similar_rfqs |-> similar_rfqs,
                         total_context_chunks |-> Len(historical_bids) + Len(similar_rfqs)]),
         queries |-> <<ContextQuery(rfq_text), ContextQuery(rfq_text)>>]

----------------------------------------------------------------------------
(* RAGService.get_collection_stats, RAGService.clear_collection *)

\* RAGService.__init__: model_name = "all-MiniLM-L6-v2"
model_name == "all-MiniLM-L6-v2"

\* 'embedding_model' is given self.model.get_sentence_embedding_dimension()
get_collection_stats(st) ==
    [rfq_documents |-> collection_count(st["rfq_documents"]),
     historical_bids |-> collection_count(st["historical_bids"]),
     conflict_documents |-> collection_count(st["conflict_documents"]),
     embedding_model |-> EmbeddingDim,
     embedding_dimension |-> EmbeddingDim]

\* delete_collection then create_collection under the same name; a
\* document_type that names no collection falls through to "return True"
\* (mutant) the whole store is reset instead of the one collection
clear_collection_All(st, document_type) ==
    [out |-> Return(TRUE),
     store |-> IF CollectionOf(document_type) = "None" THEN st ELSE EmptyStore]

clear_collection(st, document_type) ==
    LET cname == CollectionOf(document_type)
    IN  [out |-> Return(TRUE),
         store |-> IF cname = "None" THEN st ELSE [st EXCEPT ![cname] = << >>]]

----------------------------------------------------------------------------
(* RAGService.detect_semantic_conflicts, AIServiceManager.detect_conflicts *)

\* 0.95 and 0.85, in hundredths
HighSeverityPct == 95
ConflictThresholdPct == 85
\* documents[i][:200]
ConflictPreviewLen == 200

\* "if len(documents) < 2: return []"
TooFewDocuments(documents) == Len(documents) < 2

IndexPairs_WithSelf(n) ==
    LET Key(p) == p[1] * n + p[2]
    IN  SortedBy({p \in (0..(n - 1)) \X (0..(n - 1)) : p[1] <= p[2]}, Key)

Severity_ByThreshold(similarity) ==
    IF GreaterThanPct(similarity, ConflictThresholdPct) THEN "high" ELSE "medium"

\* line 339: 'high' if similarity > 0.95 else 'medium'
Severity(similarity) ==
    IF GreaterThanPct(similarity, HighSeverityPct) THEN "high" ELSE "medium"

\* the (i, j) of the nested loops, 0-based, in the order the loops visit them
IndexPairs(n) ==
    LET Key(p) == p[1] * n + p[2]
    IN  SortedBy({p \in (0..(n - 1)) \X (0..(n - 1)) : p[1] < p[2]}, Key)

detect_semantic_conflicts(documents, threshold) ==
    IF TooFewDocuments(documents) THEN << >>
    ELSE LET embeddings == generate_embeddings(documents)
             Similarity(p) == Cosine2(embeddings[p[1] + 1], embeddings[p[2] + 1])
             Reported(p) == GreaterThanPct(Similarity(p), threshold)
             hits == SelectSeq(IndexPairs(Len(documents)), Reported)
         IN  [h \in 1..Len(hits) |->
                 [doc1_index |-> hits[h][1],
                  doc2_index |-> hits[h][2],
                  doc1_preview |-> PySlice(documents[hits[h][1] + 1], 0, ConflictPreviewLen),
                  doc2_preview |-> PySlice(documents[hits[h][2] + 1], 0, ConflictPreviewLen),
                  similarity_score |-> Similarity(hits[h]),
                  conflict_type |-> "semantic_similarity",
                  severity |-> Severity(Similarity(hits[h]))]]

DocTexts_NoFilter(documents) ==
    [i \in 1..Len(documents) |-> GetOr(documents[i], "content", << >>)]

\* line 204: [doc.get('content', '') for doc in documents if doc.get('content')]
DocTexts(documents) ==
    LET HasContent(doc) == Truthy(Get(doc, "content"))
        kept == SelectSeq(documents, HasContent)
    IN  [i \in 1..Len(kept) |-> kept[i].content]

\* AIServiceManager.detect_conflicts(documents)
detect_conflicts(documents) ==
    LET doc_texts == DocTexts(documents)
    IN  IF Len(doc_texts) < 2 THEN << >>
        ELSE LET semantic_conflicts ==
                     detect_semantic_conflicts(doc_texts, ConflictThresholdPct)
             IN  [c \in 1..Len(semantic_conflicts) |->
                    LET conflict == semantic_conflicts[c]
                        idx1 == conflict.doc1_index
                        idx2 == conflict.doc2_index
                    IN  [type |-> "semantic",
                         severity |-> conflict.severity,
                         source1 |-> GetOr(documents[idx1 + 1], "source", <<"Document", idx1 + 1>>),
                         source2 |-> GetOr(documents[idx2 + 1], "source", <<"Document", idx2 + 1>>),
                         snippet1 |-> conflict.doc1_preview,
                         snippet2 |-> conflict.doc2_preview,
                         similarity_score |-> conflict.similarity_score]]

----------------------------------------------------------------------------
(* The service as a state machine: one action per operation *)

\* Bounds
MaxK == 5
MaxDocs == 3
\* create_sample_data is not called again once a collection has been reported
\* this many chunks since it was last cleared
MaxReported == 5

\* the files index_document is called on, and what is in them
FilePaths ==
    { [dir |-> "project", stem |-> "rfq_tower", ext |-> ".txt"],
      [dir |-> "project", stem |-> "empty", ext |-> ".txt"],
      [dir |-> "project", stem |-> "notes", ext |-> ".md"] }

Disk(file_path) ==
    CASE file_path.stem = "rfq_tower" -> [text |-> <<"a", ".", " ", "a">>, readable |-> TRUE]
      [] file_path.stem = "empty" -> [text |-> << >>, readable |-> TRUE]
      [] OTHER -> [text |-> <<"a">>, readable |-> TRUE]

TypeInputs == DocumentTypes \cup {"memo"}
Metadatas == { [project |-> "p"], [project |-> "p", doc_id |-> "d1"] }
Queries == { <<"a">>, <<"a", " ", "a", ".">> }
Thresholds == {85, 97}
\* an RFQ longer than the query of get_context_for_bid, and a short one
RfqTexts == { sample_rfqs_content_1, <<"a", ".", " ", "a">> }
\* fewer and more than the collections hold; 5 and 10 are the defaults
HistoricalBidCounts == {1, 5}
RfqChunkCounts == {2, 10}

\* texts and documents handed to conflict detection
ConflictTexts == { << >>, <<"a">>, <<"a", " ">> }
\* a source label is a text, as the default label f'Document {idx+1}' is
ConflictDocs ==
    { [content |-> <<"a">>, source |-> <<"A">>],
      [content |-> << >>, source |-> <<"C">>],
      [source |-> <<"D">>],
      [content |-> <<"a", " ">>] }
ListsOf(S) == UNION {[1..n -> S] : n \in 0..MaxDocs}

\* collection.count() of every collection
Counts(st) == [c \in CollectionNames |-> collection_count(st[c])]

\* history: the documents handed to index_chunks so far, with their ids
Produced == IF "produced" \in DOMAIN result THEN result.produced ELSE << >>

\* the arguments of the collection.add of each sample document
\* (create_sample_data issues one per sample, whatever becomes of it)
SampleAdds ==
    [k \in 1..Len(sample_rfqs) |->
        [doc_id |-> sample_rfqs[k].metadata.doc_id, chunks |-> sample_rfq_chunks[k],
         args |-> sample_add(sample_rfqs[k], sample_rfq_chunks[k], "rfq")]] \o
    [k \in 1..Len(sample_bids) |->
        [doc_id |-> sample_bids[k].metadata.doc_id, chunks |-> sample_bid_chunks[k],
         args |-> sample_add(sample_bids[k], sample_bid_chunks[k], "bid")]]

ChunkIdle ==
    /\ text = << >>
    /\ chunk_size = DefaultChunkSize
    /\ overlap = DefaultOverlap
    /\ start = 0
    /\ chunks = << >>
    /\ windows = << >>
    /\ pc = "idle"

\* the number of threads that call get_rag_service
MaxThreads == 2
Threads == 1..MaxThreads

\* line 396: _rag_service_instance = None; no thread is inside get_rag_service
SingletonIdle ==
    /\ rag_service_instance = None
    /\ constructed = 0
    /\ threads = [t \in Threads |-> [pc |-> "idle", obj |-> None, got |-> {}]]

\* Database.__init__ on a fresh data_dir: the subdirectories exist and are empty
Directories == {"projects", "documents", "analyses", "bids", "conflicts",
                "predictions", "companies", "users"}
DbIdle ==
    /\ db = [d \in Directories |-> << >>]
    /\ now = 0
    /\ issued = << >>

RagIdle ==
    /\ SingletonIdle
    /\ DbIdle
    /\ store = EmptyStore
    /\ result = [op |-> "init"]
    /\ prevCount = Counts(EmptyStore)
    /\ indexedSum = [c \in CollectionNames |-> 0]
    /\ clearing = {}

Init == ChunkIdle /\ RagIdle /\ dup_policy \in DupPolicies

IndexDocumentOn(file_paths, document_types, metadata_values) ==
    \E file_path \in file_paths, document_type \in document_types,
       metadata \in metadata_values :
        LET r == index_document(store, file_path, document_type, metadata, dup_policy)
            ok == r.out.kind = "return" /\ r.out.value.success
            cname == CollectionOf(document_type)
        IN  /\ store' = r.store
            /\ prevCount' = Counts(store)
            /\ result' = [op |-> "index_document", file_path |-> file_path,
                          document_type |-> document_type, metadata |-> metadata,
                          out |-> r.out]
            /\ indexedSum' = IF ok THEN [indexedSum EXCEPT ![cname] = @ + r.out.value.chunks_indexed]
                             ELSE indexedSum
            /\ UNCHANGED <<dup_policy, clearing, chunkVars, singletonVars, dbVars>>

IndexDocument ==
    /\ IndexDocumentOn(FilePaths, TypeInputs, Metadatas)

CreateSampleData ==
    /\ \A c \in CollectionNames : indexedSum[c] < MaxReported
    /\ LET r == create_sample_data(store, dup_policy)
        IN  /\ store' = r.store
            /\ prevCount' = Counts(store)
            /\ result' = [op |-> "create_sample_data", out |-> r.out,
                          produced |-> Produced]
            /\ indexedSum' = [c \in CollectionNames |-> indexedSum[c] + r.chunks[c]]
            /\ UNCHANGED <<dup_policy, clearing, chunkVars, singletonVars, dbVars>>

SearchSimilarOn(queries, document_types, sizes) ==
    \E query \in queries, document_type \in document_types, n_results \in sizes :
        /\ result' = [op |-> "search_similar", document_type |-> document_type,
                      n_results |-> n_results,
                      out |-> Return(search_similar(store, query, document_type, n_results))]
        /\ prevCount' = Counts(store)
        /\ UNCHANGED <<store, indexedSum, dup_policy, clearing, chunkVars, singletonVars, dbVars>>

SearchSimilar ==
    /\ SearchSimilarOn(Queries, TypeInputs, 1..MaxK)

GetContextForBidOn(rfq_texts, bid_counts, chunk_counts) ==
    \E rfq_text \in rfq_texts, n_historical_bids \in bid_counts,
       n_rfq_chunks \in chunk_counts :
        LET r == get_context_for_bid(store, rfq_text, n_historical_bids, n_rfq_chunks)
        IN  /\ result' = [op |-> "get_context_for_bid", rfq_text |-> rfq_text,
                          n_historical_bids |-> n_historical_bids,
                          n_rfq_chunks |-> n_rfq_chunks,
                          queries |-> r.queries, out |-> r.out]
            /\ prevCount' = Counts(store)
            /\ UNCHANGED <<store, indexedSum, dup_policy, clearing, chunkVars, singletonVars, dbVars>>

GetContextForBid ==
    /\ GetContextForBidOn(RfqTexts, HistoricalBidCounts, RfqChunkCounts)

GetCollectionStats ==
    /\ result' = [op |-> "get_collection_stats", out |-> Return(get_collection_stats(store))]
    /\ prevCount' = Counts(store)
    /\ UNCHANGED <<store, indexedSum, dup_policy, clearing, chunkVars, singletonVars, dbVars>>

ClearCollection ==
    \E document_type \in TypeInputs :
        LET r == clear_collection(store, document_type)
            cname == CollectionOf(document_type)
        IN  /\ store' = r.store
            /\ prevCount' = Counts(store)
            /\ result' = [op |-> "clear_collection", document_type |-> document_type,
                          out |-> r.out]
            /\ indexedSum' = IF cname = "None" THEN indexedSum
                             ELSE [indexedSum EXCEPT ![cname] = 0]
            /\ UNCHANGED <<dup_policy, clearing, chunkVars, singletonVars, dbVars>>

DetectSemanticConflictsOn(document_lists, thresholds) ==
    \E documents \in document_lists, threshold \in thresholds :
        /\ result' = [op |-> "detect_semantic_conflicts", documents |-> documents,
                      threshold |-> threshold,
                      out |-> Return(detect_semantic_conflicts(documents, threshold))]
        /\ prevCount' = Counts(store)
        /\ UNCHANGED <<store, indexedSum, dup_policy, clearing, chunkVars, singletonVars, dbVars>>

DetectSemanticConflicts ==
    /\ DetectSemanticConflictsOn(ListsOf(ConflictTexts), Thresholds)

DetectConflicts ==
    \E documents \in ListsOf(ConflictDocs) :
        /\ result' = [op |-> "detect_conflicts", documents |-> documents,
                      out |-> Return(detect_conflicts(documents))]
        /\ prevCount' = Counts(store)
        /\ UNCHANGED <<store, indexedSum, dup_policy, clearing, chunkVars, singletonVars, dbVars>>

Next ==
    \/ IndexDocument
    \/ CreateSampleData
    \/ SearchSimilar
    \/ GetContextForBid
    \/ GetCollectionStats
    \/ ClearCollection

Spec == Init /\ [][Next]_vars

\* conflict detection neither reads nor writes the collections
NextConflicts ==
    \/ DetectSemanticConflicts
    \/ DetectConflicts

InitConflicts == ChunkIdle /\ RagIdle /\ dup_policy = "ignore"

SpecConflicts == InitConflicts /\ [][NextConflicts]_vars

----------------------------------------------------------------------------
(* Several callers on the one shared service *)

(* get_rag_service hands every caller of a process the same RAGService, and
   no method takes a lock.  clear_collection is two calls on the client,
   delete_collection and create_collection; between them the caller inside
   clear_collection holds no handle that other callers could wait on, and
   their calls run on a handle whose collection does not exist.  The steps
   below are those of different callers, interleaved in any order. *)

\* the collections among those of document_types that are deleted right now
MissingOf(document_types) == {CollectionOf(dt) : dt \in document_types} \cap clearing

\* create_sample_data while the collections in missing do not exist: each
\* add on such a collection raises and the sample goes to results['errors']
create_sample_data_without(st, missing, policy) ==
    LET Loop(cname, samples, cks, document_type) ==
            IF cname \in missing
            THEN [LoopStart(st[cname]) EXCEPT !.errors = Len(samples)]
            ELSE index_samples(LoopStart(st[cname]), samples, cks, 1, document_type, policy)
        rfqs == Loop("rfq_documents", sample_rfqs, sample_rfq_chunks, "rfq")
        bids == Loop("historical_bids", sample_bids, sample_bid_chunks, "bid")
    IN  [out |-> Return([success |-> TRUE,
                         rfqs_indexed |-> rfqs.indexed,
                         bids_indexed |-> bids.indexed,
                         errors |-> rfqs.errors + bids.errors,
                         total_indexed |-> rfqs.indexed + bids.indexed]),
         store |-> [st EXCEPT !["rfq_documents"] = rfqs.coll,
                              !["historical_bids"] = bids.coll],
         chunks |-> [c \in CollectionNames |->
                        CASE c = "rfq_documents" -> rfqs.chunks
                          [] c = "historical_bids" -> bids.chunks
                          [] OTHER -> 0]]

\* clear_collection, first half: self.client.delete_collection(name)
ClearDelete ==
    \E document_type \in DocumentTypes :
        LET cname == CollectionOf(document_type)
        IN  /\ cname \notin clearing
            /\ clearing' = clearing \cup {cname}
            /\ store' = [store EXCEPT ![cname] = << >>]
            /\ prevCount' = Counts(store)
            /\ indexedSum' = [indexedSum EXCEPT ![cname] = 0]
            /\ result' = [op |-> "delete_collection", document_type |-> document_type]
            /\ UNCHANGED <<dup_policy, chunkVars, singletonVars, dbVars>>

\* clear_collection of a second caller on a collection already deleted:
\* delete_collection raises, "except Exception" returns False
ClearRefused ==
    \E document_type \in DocumentTypes :
        /\ CollectionOf(document_type) \in clearing
        /\ result' = [op |-> "clear_collection", document_type |-> document_type,
                      out |-> Return(FALSE)]
        /\ prevCount' = Counts(store)
        /\ UNCHANGED <<store, indexedSum, dup_policy, clearing, chunkVars, singletonVars, dbVars>>

\* clear_collection, second half: self.client.create_collection(name, ...),
\* the handle is replaced and True returned
ClearCreate ==
    \E document_type \in DocumentTypes :
        /\ CollectionOf(document_type) \in clearing
        /\ clearing' = clearing \ {CollectionOf(document_type)}
        /\ result' = [op |-> "clear_collection", document_type |-> document_type,
                      out |-> Return(TRUE)]
        /\ prevCount' = Counts(store)
        /\ UNCHANGED <<store, indexedSum, dup_policy, chunkVars, singletonVars, dbVars>>

\* search_similar of another caller: line 219, collection.count(), raises on
\* a deleted collection and search_similar has no try
SearchDuringClear ==
    \E query \in Queries, document_type \in DocumentTypes, n_results \in {1, MaxK} :
        LET missing == MissingOf({document_type})
        IN  /\ result' = [op |-> "search_similar", document_type |-> document_type,
                          n_results |-> n_results, missing |-> missing,
                          out |-> IF missing # {}
                                  THEN Raise("collection does not exist")
                                  ELSE Return(search_similar(store, query, document_type,
                                                             n_results))]
            /\ prevCount' = Counts(store)
            /\ UNCHANGED <<store, indexedSum, dup_policy, clearing, chunkVars, singletonVars, dbVars>>

\* create_sample_data of another caller
CreateSampleDataDuringClear ==
    /\ \A c \in CollectionNames : indexedSum[c] < MaxReported
    /\ LET missing == MissingOf({"rfq", "bid"})
           r == create_sample_data_without(store, missing, dup_policy)
       IN  /\ store' = r.store
           /\ prevCount' = Counts(store)
           /\ result' = [op |-> "create_sample_data", missing |-> missing, out |-> r.out]
           /\ indexedSum' = [c \in CollectionNames |-> indexedSum[c] + r.chunks[c]]
           /\ UNCHANGED <<dup_policy, clearing, chunkVars, singletonVars, dbVars>>

NextConcurrent ==
    \/ ClearDelete
    \/ ClearRefused
    \/ ClearCreate
    \/ SearchDuringClear
    \/ CreateSampleDataDuringClear

SpecConcurrent == Init /\ [][NextConcurrent]_vars

----------------------------------------------------------------------------
(* index_document from line 135 on, as a function of the extracted document,
   for files reached directly and through index_project_documents *)

MaxIndexed == 2

\* project_path and the files under it
project_path == [dir |-> "", stem |-> "project", ext |-> ""]
ProjectFiles ==
    { [dir |-> "project", stem |-> "rfq_tower", ext |-> ".txt"],
      [dir |-> "project", stem |-> "rfq_tower", ext |-> ".pdf"],
      [dir |-> "project/archive", stem |-> "rfq_tower", ext |-> ".txt"] }

ProjectDisk(file_path) ==
    CASE file_path.ext = ".pdf" -> [text |-> <<"a", " ", "a">>, readable |-> TRUE]
      [] file_path.dir = "project/archive" -> [text |-> <<"a", ".">>, readable |-> TRUE]
      [] OTHER -> [text |-> sample_rfqs_content_1, readable |-> TRUE]

\* DocumentManager._determine_doc_type: the first keyword group found in the
\* lower-cased path ('rfq' is in every path of ProjectFiles)
determine_doc_type(file_path) ==
    CASE file_path.stem \in {"rfq_tower"} -> "rfq"
      [] OTHER -> "conflict"

Routes == {"index_document", "index_project_documents"}

\* index_project_documents, lines 62-65; a direct caller passes no metadata
\* ("metadata or {}")
RouteMetadata(route, file_path) ==
    IF route = "index_project_documents"
    THEN [project |-> basename(project_path), doc_id |-> file_path.stem]
    ELSE << >>

\* index_project_documents passes _determine_doc_type(file_path); a direct
\* caller is given the default document_type
RouteType(route, file_path) ==
    IF route = "index_project_documents" THEN determine_doc_type(file_path) ELSE "rfq"

\* process_file and chunk_text(text, chunk_size=1000, overlap=200) of each file
project_doc_data == [f \in ProjectFiles |-> process_file(ProjectDisk(f), f)]
project_chunks ==
    [f \in ProjectFiles |-> chunk_text(project_doc_data[f].content,
                                       IndexChunkSize, IndexOverlap)]

IndexChunksOn(file_paths, routes) ==
    /\ Len(Produced) < MaxIndexed
    /\ \E file_path \in file_paths, route \in routes :
        LET document_type == RouteType(route, file_path)
            metadata == RouteMetadata(route, file_path)
            doc_data == project_doc_data[file_path]
            cks == project_chunks[file_path]
            a == index_add(file_path, document_type, metadata, doc_data, cks)
            r == index_chunks(store, file_path, document_type, metadata, doc_data, cks,
                              dup_policy)
            ok == r.out.kind = "return" /\ r.out.value.success
            cname == CollectionOf(document_type)
        IN  /\ store' = r.store
            /\ prevCount' = Counts(store)
            /\ indexedSum' = IF ok THEN [indexedSum EXCEPT ![cname] = @ + Len(cks)]
                             ELSE indexedSum
            /\ result' = [op |-> "index_chunks", route |-> route, file_path |-> file_path,
                          document_type |-> document_type, out |-> r.out,
                          adds |-> << [doc_id |-> a.doc_id, chunks |-> cks,
                                       args |-> [ids |-> a.ids,
                                                 embeddings |-> a.embeddings,
                                                 documents |-> a.documents,
                                                 metadatas |-> a.metadatas]] >>,
                          produced |-> Append(Produced,
                                              [file_path |-> file_path,
                                               collection |-> cname,
                                               ids |-> a.ids])]
            /\ UNCHANGED <<dup_policy, clearing, chunkVars, singletonVars, dbVars>>

IndexChunks ==
    /\ IndexChunksOn(ProjectFiles, Routes)

NextIndex ==
    \/ IndexChunks
    \/ CreateSampleData

SpecIndex == Init /\ [][NextIndex]_vars

----------------------------------------------------------------------------
(* get_rag_service, one statement per step, called from several threads *)

\* a RAGService object is named by the order of its construction
ServiceObject(n) == <<"RAGService", n>>

\* line 398: a thread enters get_rag_service (again, after an earlier call)
GetEnter(t) ==
    /\ threads[t].pc \in {"idle", "done"}
    /\ threads' = [threads EXCEPT ![t].pc = "check"]
    /\ UNCHANGED <<rag_service_instance, constructed, chunkVars, ragVars, dbVars>>

\* line 401: if _rag_service_instance is None
GetCheck(t) ==
    /\ threads[t].pc = "check"
    /\ threads' = [threads EXCEPT ![t].pc =
                      IF rag_service_instance = None THEN "construct" ELSE "return"]
    /\ UNCHANGED <<rag_service_instance, constructed, chunkVars, ragVars, dbVars>>

\* line 402, right-hand side: RAGService() runs (model load, ChromaDB client)
GetConstruct(t) ==
    /\ threads[t].pc = "construct"
    /\ constructed' = constructed + 1
    /\ threads' = [threads EXCEPT ![t].pc = "assign",
                                  ![t].obj = ServiceObject(constructed + 1)]
    /\ UNCHANGED <<rag_service_instance, chunkVars, ragVars, dbVars>>

\* line 402, the assignment to the global
GetAssign(t) ==
    /\ threads[t].pc = "assign"
    /\ rag_service_instance' = threads[t].obj
    /\ threads' = [threads EXCEPT ![t].pc = "return", ![t].obj = None]
    /\ UNCHANGED <<constructed, chunkVars, ragVars, dbVars>>

\* line 403: return _rag_service_instance
GetReturn(t) ==
    /\ threads[t].pc = "return"
    /\ threads' = [threads EXCEPT ![t].pc = "done",
                                  ![t].got = @ \cup {rag_service_instance}]
    /\ UNCHANGED <<rag_service_instance, constructed, chunkVars, ragVars, dbVars>>

NextSingleton ==
    \E t \in Threads :
        \/ GetEnter(t)
        \/ GetCheck(t)
        \/ GetConstruct(t)
        \/ GetAssign(t)
        \/ GetReturn(t)

SpecSingleton == Init /\ [][NextSingleton]_vars

----------------------------------------------------------------------------
(* Database: the create and save operations *)

\* the calls kept in the history, and the seconds the clock runs through
MaxSaves == 3
MaxClock == 1

Payloads == {"x", "y"}

\* f"{prefix}-{datetime.now().strftime('%Y%m%d-%H%M%S')}": the prefix and the
\* clock reading cut to whole seconds
TimestampId(prefix, second) == <<prefix, second>>

\* open(file_path, 'w') and json.dump: the file of that name is created or
\* replaced
WriteFile(dir, id, record) ==
    [k \in DOMAIN dir \cup {id} |-> IF k = id THEN record ELSE dir[k]]

\* the body shared by the eight operations: the id from the clock, the id put
\* into the data, the data written to <subdirectory>/<id>.json, the id returned
SaveRecord(op, subdirectory, prefix) ==
    /\ Len(issued) < MaxSaves
    /\ \E data \in Payloads :
        LET id == TimestampId(prefix, now)
        IN  /\ db' = [db EXCEPT ![subdirectory] = WriteFile(@, id, [id |-> id, data |-> data])]
            /\ issued' = Append(issued, [op |-> op, subdirectory |-> subdirectory,
                                         id |-> id, data |-> data])
    /\ UNCHANGED <<now, chunkVars, ragVars, singletonVars>>

CreateProject ==
    /\ SaveRecord("create_project", "projects", "PRJ")
SaveDocument ==
    /\ SaveRecord("save_document", "documents", "DOC")
SaveAnalysis ==
    /\ SaveRecord("save_analysis", "analyses", "ANL")
SaveBid ==
    /\ SaveRecord("save_bid", "bids", "BID")
SaveConflicts ==
    /\ SaveRecord("save_conflicts", "conflicts", "CNF")
SavePrediction ==
    /\ SaveRecord("save_prediction", "predictions", "PRED")
CreateCompany ==
    /\ SaveRecord("create_company", "companies", "COMP")
CreateUser ==
    /\ SaveRecord("create_user", "users", "USR")

\* a second passes between two calls
ClockTick ==
    /\ now < MaxClock
    /\ now' = now + 1
    /\ UNCHANGED <<db, issued, chunkVars, ragVars, singletonVars>>

NextDb ==
    \/ CreateProject
    \/ SaveDocument
    \/ SaveAnalysis
    \/ SaveBid
    \/ SaveConflicts
    \/ SavePrediction
    \/ CreateCompany
    \/ CreateUser
    \/ ClockTick

SpecDb == Init /\ [][NextDb]_vars

----------------------------------------------------------------------------
(* AIServiceManager.generate_bid *)

\* n_historical_bids=5, n_rfq_chunks=10 at the call of get_context_for_bid
BidContextBids == 5
BidContextChunks == 10
\* _create_bid_prompt: the first 3 results of each list, 500 characters of each
PromptDocs == 3
PromptDocLen == 500

\* the parameters of get_context_for_bid after self
ContextParameters == {"rfq_text", "n_historical_bids", "n_rfq_chunks"}

\* A call self.rag_service.get_context_for_bid(**kwargs): Python raises
\* TypeError for a keyword that names no parameter and for a missing rfq_text;
\* the other two parameters have defaults
get_context_for_bid_call(st, kwargs) ==
    IF ~(DOMAIN kwargs \subseteq ContextParameters) \/ "rfq_text" \notin DOMAIN kwargs
    THEN Raise("TypeError")
    ELSE get_context_for_bid(st, kwargs.rfq_text,
                             GetOr(kwargs, "n_historical_bids", 5),
                             GetOr(kwargs, "n_rfq_chunks", 10)).out

\* lines 64-75: the context, None when use_rag is off or the retrieval raised
ContextOrNone(use_rag, called) ==
    IF use_rag /\ called.kind = "return" THEN called.value ELSE None

\* the documents of the first PromptDocs results, cut to PromptDocLen
PromptDocuments(results) ==
    [k \in 1..(IF PromptDocs < Len(results) THEN PromptDocs ELSE Len(results)) |->
        PySlice(results[k].document, 0, PromptDocLen)]

\* _create_bid_prompt: the parts the prompt is formatted from
create_bid_prompt(project_context, rfp_content, rag_context) ==
    [project_context |-> project_context,
     rfp_content |-> rfp_content,
     rag_section |->
        IF rag_context # None /\ rag_context.total_context_chunks > 0
        THEN [historical_bids |-> PromptDocuments(rag_context.historical_bids),
              similar_rfqs |-> PromptDocuments(rag_context.similar_rfqs)]
        ELSE << >>]

Models == {"openai", "anthropic", "gemini"}

\* lines 79-104: the provider call and the metadata added to its result;
\* available is the set of configured clients, llm the provider's outcome
bid_result(model, available, llm, rag_context) ==
    IF model \notin Models \cap available \/ llm = "raise"
    THEN [content |-> << >>, model |-> model, error |-> "error", success |-> FALSE]
    ELSE IF rag_context # None
    THEN [content |-> <<"bid">>, model |-> model, success |-> TRUE,
          rag_context |->
              [historical_bids_count |-> Len(rag_context.historical_bids),
               similar_rfqs_count |-> Len(rag_context.similar_rfqs),
               total_context_chunks |-> rag_context.total_context_chunks]]
    ELSE [content |-> <<"bid">>, model |-> model, success |-> TRUE]

\* generate_bid for the context value the try block of lines 66-75 left
bid_with_context(project_context, rfp_content, model, available, llm, rag_context) ==
    [out |-> bid_result(model, available, llm, rag_context),
     prompt |-> create_bid_prompt(project_context, rfp_content, rag_context)]

generate_bid(st, project_context, rfp_content, model, use_rag, available, llm) ==
    bid_with_context(project_context, rfp_content, model, available, llm,
        ContextOrNone(use_rag,
            get_context_for_bid_call(st, [rfp_text |-> rfp_content,
                                          n_historical_bids |-> BidContextBids,
                                          n_rfq_chunks |-> BidContextChunks])))

ModelInputs == Models \cup {"llama"}
Configured == { {}, {"openai"}, Models }

\* the state after generate_bid has returned r
BidReturn(rfp_content, model, use_rag, r) ==
    /\ result' = [op |-> "generate_bid", rfp_content |-> rfp_content, model |-> model,
                  use_rag |-> use_rag, prompt |-> r.prompt, out |-> r.out]
    /\ prevCount' = Counts(store)

GenerateBid ==
    /\ \E rfp_content \in RfqTexts, model \in ModelInputs, use_rag \in BOOLEAN,
          available \in Configured, llm \in {"ok", "raise"} :
          BidReturn(rfp_content, model, use_rag,
                    generate_bid(store, <<"c">>, rfp_content, model, use_rag,
                                 available, llm))
    /\ UNCHANGED <<store, indexedSum, dup_policy, clearing, chunkVars, singletonVars, dbVars>>

NextBid ==
    \/ GenerateBid
    \/ CreateSampleData
    \/ ClearCollection

SpecBid == Init /\ [][NextBid]_vars

----------------------------------------------------------------------------
(* Every operation of the service that reads or writes the collections *)

\* the inputs of the read-only operations: one query per operation, every
\* document type, pairs of texts
FramePaths == {f \in FilePaths : f.stem = "rfq_tower"}
FrameMetadatas == { [project |-> "p"] }
FrameQueries == { <<"a">> }
FrameTexts == { <<"a", ".", " ", "a">> }
FramePairs == [1..2 -> ConflictTexts]

\* a file indexed while fewer than MaxIndexed chunks were reported for its
\* collection (every file of ProjectFiles is an RFQ)
IndexChunksBounded ==
    /\ indexedSum["rfq_documents"] < MaxIndexed
    /\ IndexChunksOn({f \in ProjectFiles : f.ext = ".pdf"}, Routes)

NextFrame ==
    \/ IndexDocumentOn(FramePaths, TypeInputs, FrameMetadatas)
    \/ IndexChunksBounded
    \/ CreateSampleData
    \/ SearchSimilarOn(FrameQueries, TypeInputs, {MaxK})
    \/ GetContextForBidOn(FrameTexts, {MaxK}, {MaxK})
    \/ GetCollectionStats
    \/ ClearCollection
    \/ DetectSemanticConflictsOn(FramePairs, {ConflictThresholdPct})

SpecFrame == Init /\ [][NextFrame]_vars

----------------------------------------------------------------------------
(* DocumentManager.index_project_documents *)

\* line 34: the patterns used when file_patterns is None
DefaultPatterns == <<"*.pdf", "*.docx", "*.txt">>
Patterns == {"*.pdf", "*.docx", "*.txt", "rfq*"}

\* the files under project_path in the order the directory walk yields them
ProjectListing ==
    << [dir |-> "project", stem |-> "rfq_tower", ext |-> ".txt"],
       [dir |-> "project", stem |-> "rfq_tower", ext |-> ".pdf"],
       [dir |-> "project/archive", stem |-> "rfq_tower", ext |-> ".txt"] >>

missing_path == [dir |-> "", stem |-> "missing", ext |-> ""]

\* Path(project_path).exists()
PathExists(path) == path = project_path

\* whether the file name matches the pattern (every stem of ProjectListing
\* starts with 'rfq')
Matches(pattern, file_path) ==
    CASE pattern = "rfq*" -> TRUE
      [] OTHER -> pattern = "*" \o file_path.ext

\* project_dir.glob('**/' + pattern)
RECURSIVE Glob_from(_, _)
Glob_from(pattern, k) ==
    IF k > Len(ProjectListing) THEN << >>
    ELSE (IF Matches(pattern, ProjectListing[k]) THEN <<ProjectListing[k]>> ELSE << >>)
         \o Glob_from(pattern, k + 1)

Glob(pattern) == Glob_from(pattern, 1)

\* lines 50-52: one glob per pattern, the hits appended in turn
files_to_index(file_patterns) ==
    Concat([k \in 1..Len(file_patterns) |-> Glob(file_patterns[k])])

\* (mutant) the except clause drops the failure instead of recording it
project_record_Swallow(acc, file_path, doc_type, r) ==
    IF r.out.kind = "raise" THEN acc
    ELSE [acc EXCEPT !.store = r.store,
                     !.failed = Append(@, [file |-> file_path, error |-> "error"])]

\* lines 70-87: the outcome r of index_document for one file is recorded
project_record(acc, file_path, doc_type, r) ==
    IF r.out.kind = "raise"
    THEN [acc EXCEPT !.store = r.store,
                     !.failed = Append(@, [file |-> file_path, error |-> r.out.error])]
    ELSE IF Truthy(Get(r.out.value, "success")) /\ r.out.value.success
    THEN [acc EXCEPT !.store = r.store,
                     !.indexed = Append(@, [file |-> file_path, type |-> doc_type,
                                            chunks |-> GetOr(r.out.value,
                                                             "chunks_indexed", 0)]),
                     !.total_chunks = @ + GetOr(r.out.value, "chunks_indexed", 0)]
    ELSE [acc EXCEPT !.store = r.store,
                     !.failed = Append(@, [file |-> file_path,
                                           error |-> GetOr(r.out.value, "error",
                                                           "Unknown error")])]

\* lines 55-68: the body of the loop for one file
project_step(acc, file_path, policy) ==
    project_record(acc, file_path, determine_doc_type(file_path),
                   index_document(acc.store, file_path, determine_doc_type(file_path),
                                  [project |-> basename(project_path),
                                   doc_id |-> file_path.stem], policy))

RECURSIVE project_loop(_, _, _, _)
project_loop(acc, files, k, policy) ==
    IF k > Len(files) THEN acc
    ELSE project_loop(project_step(acc, files[k], policy), files, k + 1, policy)

\* lines 89-94: the dictionary returned after the loop
project_results(files, acc) ==
    [out |-> Return([indexed |-> acc.indexed, failed |-> acc.failed,
                     total_chunks |-> acc.total_chunks, success |-> TRUE,
                     total_files |-> Len(files),
                     indexed_count |-> Len(acc.indexed),
                     failed_count |-> Len(acc.failed)]),
     store |-> acc.store, files |-> files]

\* lines 36-52 and the loop, for the patterns in use
project_run(st, files, policy) ==
    project_results(files, project_loop([store |-> st, indexed |-> << >>,
                                         failed |-> << >>, total_chunks |-> 0],
                                        files, 1, policy))

index_project_documents(st, path, file_patterns, policy) ==
    IF ~PathExists(path)
    THEN [out |-> Return([error |-> "Project path does not exist", success |-> FALSE]),
          store |-> st, files |-> << >>]
    ELSE project_run(st, files_to_index(IF file_patterns = None THEN DefaultPatterns
                                        ELSE file_patterns), policy)

PatternLists == {None} \cup UNION {[1..n -> Patterns] : n \in 0..2}

\* the state after index_project_documents has returned r
ProjectReturn(path, file_patterns, r) ==
    /\ store' = r.store
    /\ prevCount' = Counts(store)
    /\ result' = [op |-> "index_project_documents", project_path |-> path,
                  file_patterns |-> file_patterns, files |-> r.files, out |-> r.out]

IndexProjectDocuments ==
    /\ \E path \in {project_path, missing_path}, file_patterns \in PatternLists :
        ProjectReturn(path, file_patterns,
                      index_project_documents(store, path, file_patterns, dup_policy))
    /\ UNCHANGED <<indexedSum, dup_policy, clearing, chunkVars, singletonVars, dbVars>>

NextProject ==
    \/ IndexProjectDocuments
    \/ CreateSampleData

SpecProject == Init /\ [][NextProject]_vars

----------------------------------------------------------------------------
(* process_pdf as a function of the file it is given *)

MaxPages == 2

PdfPages ==
    { [text |-> <<"a">>, tables |-> << >>],
      [text |-> << >>, tables |-> << >>],
      [text |-> <<"a">>, tables |-> << <<"a | a">> >>] }

PdfFiles ==
    UNION { { [pages |-> pages, plumber |-> p, pypdf |-> q] :
                pages \in [1..n -> PdfPages], p \in 0..(n + 1), q \in 0..(n + 1) } :
            n \in 0..MaxPages }

InitPdf ==
    /\ ChunkIdle
    /\ store = EmptyStore
    /\ result \in {[op |-> "call_process_pdf", file_bytes |-> f, filename |-> "doc.pdf"] :
                      f \in PdfFiles}
    /\ prevCount = Counts(EmptyStore)
    /\ indexedSum = [c \in CollectionNames |-> 0]
    /\ dup_policy = "ignore"
    /\ clearing = {}
    /\ SingletonIdle
    /\ DbIdle

ProcessPdf ==
    /\ result.op = "call_process_pdf"
    /\ LET r == process_pdf(result.file_bytes, result.filename)
       IN  result' = [op |-> "process_pdf", file_bytes |-> result.file_bytes,
                      filename |-> result.filename, tried |-> r.tried, out |-> r.out]
    /\ UNCHANGED <<store, prevCount, indexedSum, dup_policy, clearing, chunkVars, singletonVars, dbVars>>

NextPdf == ProcessPdf

SpecPdf == InitPdf /\ [][NextPdf]_vars

----------------------------------------------------------------------------
(* chunk_text, one statement group per step *)

Alphabet == {"a", " ", "."}

\* texts up to MaxTextLen in which every full stop is followed by a space
Texts ==
    {t \in UNION {[1..n -> Alphabet] : n \in 0..MaxTextLen} :
        \A i \in 1..Len(t) : t[i] = "." => (i < Len(t) /\ t[i + 1] = " ")}

InitChunk ==
    /\ chunk_size \in ChunkSizes
    /\ text \in {t \in Texts : Len(t) <= TextCap(chunk_size)}
    /\ overlap \in Overlaps(chunk_size)
    /\ start = 0
    /\ chunks = << >>
    /\ windows = << >>
    /\ pc = "call"
    /\ RagIdle
    /\ dup_policy = "ignore"   \* chunk_text never reaches the vector store

\* lines 281-285
ChunkEnter ==
    /\ pc = "call"
    /\ IF IsShort(text, chunk_size)
       THEN /\ chunks' = <<text>>
            /\ pc' = "done"
       ELSE /\ chunks' = << >>
            /\ pc' = "loop"
    /\ start' = 0
    /\ UNCHANGED <<text, chunk_size, overlap, windows, ragVars, singletonVars, dbVars>>

\* While start increases it takes each value of 0..Len(text)-chunk_size-1 at
\* most once, and the first window that reaches the end of the text is the last
IterCap == Len(text) - chunk_size + 1 + MaxExtraIter

\* lines 287-303: one iteration of the while loop
ChunkStep ==
    /\ pc = "loop"
    /\ start < Len(text)
    /\ Len(windows) < IterCap
    /\ LET it == ChunkIter(text, chunk_size, overlap, start)
       IN  /\ chunks' = AppendChunk(chunks, it.chunk)
           /\ windows' = Append(windows, <<start, it.end>>)
           /\ start' = it.next
    /\ UNCHANGED <<text, chunk_size, overlap, pc, ragVars, singletonVars, dbVars>>

\* lines 287, 305: the loop condition fails, return chunks
ChunkReturn ==
    /\ pc = "loop"
    /\ ~(start < Len(text))
    /\ pc' = "done"
    /\ UNCHANGED <<text, chunk_size, overlap, start, chunks, windows, ragVars, singletonVars, dbVars>>

NextChunk == ChunkEnter \/ ChunkStep \/ ChunkReturn

SpecChunk == InitChunk /\ [][NextChunk]_vars

----------------------------------------------------------------------------
(* chunk_text on texts with two kinds of sentence terminator *)

\* 6: a terminator can sit at exactly half of chunk_size; 9: two terminators
\* can lie in the second half of one window
CutSizes == {6, 9}
CutAlphabet == {"a", " ", ".", "!"}

\* texts one or two characters longer than chunk_size (so that the first window
\* does not reach the end), whose first half window is letters and in which
\* every full stop and exclamation mark is followed by a space
CutTexts(cs) ==
    LET head == [i \in 1..(cs \div 2) |-> "a"]
        lens == {n \in (cs + 1)..(cs + 2) : n <= MaxTextLen}
        tails == UNION {[1..(n - cs \div 2) -> CutAlphabet] : n \in lens}
    IN  {head \o tail : tail \in
            {t \in tails : \A i \in 1..Len(t) :
                t[i] \in {".", "!"} => (i < Len(t) /\ t[i + 1] = " ")}}

InitCut ==
    /\ chunk_size \in CutSizes
    /\ text \in CutTexts(chunk_size)
    /\ overlap \in {0, 1}
    /\ start = 0
    /\ chunks = << >>
    /\ windows = << >>
    /\ pc = "call"
    /\ RagIdle
    /\ dup_policy = "ignore"

SpecCut == InitCut /\ [][NextChunk]_vars

----------------------------------------------------------------------------
(* Properties of chunk_text *)

Returned == pc = "done"
LongText == Len(text) > chunk_size
OverlapOk == 0 <= overlap /\ overlap < chunk_size
Blank(s) == \A i \in 1..Len(s) : s[i] \in Whitespace
RawWindow(k) == PySlice(text, windows[k][1], windows[k][2])
Suffix(s, n) == SubSeq(s, Len(s) - n + 1, Len(s))
Prefix(s, n) == SubSeq(s, 1, n)

\* C2 (as claimed): with 0 <= overlap < chunk_size, start strictly increases on
\* every iteration of the while loop, sentence cuts included.
C2_StartStrictlyIncreases ==
    [][(OverlapOk /\ pc = "loop" /\ windows' # windows) => start' > start]_vars

\* C2: the loop comes back to a start it has already scanned from (so it never ends)
C2_LoopRevisitsStart ==
    ~(OverlapOk /\ \E j, k \in 1..Len(windows) : j < k /\ windows[j] = windows[k])

\* C3: a text no longer than chunk_size is returned as the one-element list
\* [text], unmodified, whatever the overlap.
C3_ShortTextWhole ==
    (Returned /\ ~LongText) => chunks = <<text>>

C3_Witness ==
    /\ Returned /\ ~LongText
    /\ Len(text) = chunk_size /\ text[1] = " " /\ overlap = chunk_size

\* C4 (as claimed): a text longer than chunk_size, with 0 <= overlap <
\* chunk_size, yields at least 2 chunks.
C4_AtLeastTwoChunks ==
    (Returned /\ LongText /\ OverlapOk) => Len(chunks) >= 2

\* C4 (amended): such a call scans at least two windows and returns one chunk
\* per window that holds a non-whitespace character; at least 2 chunks when the
\* text has no whitespace at all.
C4_TwoWindowsChunkPerNonBlank ==
    (Returned /\ LongText /\ OverlapOk) =>
        /\ Len(windows) >= 2
        /\ Len(chunks) = Cardinality({k \in 1..Len(windows) : ~Blank(RawWindow(k))})
        /\ ((\A i \in 1..Len(text) : text[i] \notin Whitespace) => Len(chunks) >= 2)

C4_Witness ==
    /\ Returned /\ LongText /\ OverlapOk
    /\ Len(windows) >= 2 /\ Len(chunks) = 1

\* C5 (as claimed): every pair of consecutive chunks except possibly the last
\* pair shares overlap characters: the last overlap characters of chunk k are the
\* first overlap characters of chunk k+1.
C5_ChunksShareOverlap ==
    (Returned /\ LongText /\ OverlapOk) =>
        \A k \in 1..(Len(chunks) - 2) :
            /\ Len(chunks[k]) >= overlap
            /\ Len(chunks[k + 1]) >= overlap
            /\ Suffix(chunks[k], overlap) = Prefix(chunks[k + 1], overlap)

\* C5 (amended): every window after the first starts exactly overlap characters
\* before the end of the window before it, and the untrimmed windows share those
\* overlap characters whenever the earlier window is at least overlap long.
C5_WindowsShareOverlap ==
    (LongText /\ OverlapOk) =>
        \A k \in 1..(Len(windows) - 1) :
            /\ windows[k + 1][1] = windows[k][2] - overlap
            /\ (windows[k][2] - windows[k][1] >= overlap /\ windows[k][1] >= 0) =>
                   /\ Len(RawWindow(k)) >= overlap
                   /\ Len(RawWindow(k + 1)) >= overlap
                   /\ Suffix(RawWindow(k), overlap) = Prefix(RawWindow(k + 1), overlap)

\* three windows, each giving a chunk, the first one trimmed
C5_Witness ==
    /\ Returned /\ LongText /\ OverlapOk /\ overlap >= 1
    /\ Len(windows) >= 3 /\ Len(chunks) = Len(windows)
    /\ chunks[1] # RawWindow(1)
    /\ Suffix(RawWindow(1), overlap) = Prefix(RawWindow(2), overlap)

\* C6 (as claimed): every non-empty text yields at least one chunk.
C6_NonEmptyHasChunk ==
    (Returned /\ Len(text) > 0) => Len(chunks) >= 1

\* C6 (amended): every text no longer than chunk_size, and every text holding a
\* non-whitespace character, yields at least one chunk.
C6_NonBlankHasChunk ==
    (Returned /\ (~LongText \/ ~Blank(text))) => Len(chunks) >= 1

C6_Witness ==
    /\ Returned /\ LongText /\ ~Blank(text)
    /\ Blank(RawWindow(1)) /\ Len(chunks) = 1

----------------------------------------------------------------------------
(* Properties of the service *)

Called(op) == result.op = op
Returned_(op) == Called(op) /\ result.out.kind = "return"
Target == CollectionOf(result.document_type)
Grown(c) == collection_count(store[c]) - prevCount[c]
Min(a, b) == IF a < b THEN a ELSE b

\* index_document was last called on a file of a supported format whose
\* text is non-empty, for one of the three document types
C1_Applies ==
    /\ Called("index_document")
    /\ result.file_path.ext \in SupportedFormats
    /\ Disk(result.file_path).text # << >>
    /\ result.document_type \in DocumentTypes

\* C1: index_document on a supported file with non-empty text and a document
\* type in {rfq, bid, conflict} returns success, chunks_indexed equal to the
\* number of chunks of chunk_text(text, 1000, 200) and the doc id, and the
\* collection of that type grows by that many records (all of them when the
\* collection held none of the ids, which is so when it was empty).
C1_IndexDocumentSucceeds ==
    C1_Applies =>
        /\ result.out.kind = "return"
        /\ result.out.value.success
        /\ result.out.value.chunks_indexed =
               Len(chunk_text(Disk(result.file_path).text, IndexChunkSize, IndexOverlap))
        /\ result.out.value.doc_id =
               GetOr(result.metadata, "doc_id", basename(result.file_path))
        /\ Grown(Target) <= result.out.value.chunks_indexed
        /\ prevCount[Target] = 0 => Grown(Target) = result.out.value.chunks_indexed

\* the error index_document returns when process_file reports a failure
ExtractionFailure == "Failed to extract text from document"

C7_Applies ==
    /\ Called("index_document")
    /\ result.file_path.ext \in SupportedFormats
    /\ Disk(result.file_path).text = << >>
    /\ result.document_type \in DocumentTypes

\* C7: index_document on a document whose extracted text is empty fails with
\* an empty-document error that is not the error of an extraction failure, and
\* the count of the target collection is what it was before the call.
C7_EmptyDocumentRejected ==
    C7_Applies =>
        /\ result.out.kind = "return"
        /\ ~result.out.value.success
        /\ result.out.value.error # ExtractionFailure
        /\ Grown(Target) = 0

\* C8: the count get_collection_stats reports for each collection equals the
\* sum of the chunks reported indexed by the successful indexing calls into
\* that collection since it was last cleared.
C8_StatsEqualReportedSum ==
    Returned_("get_collection_stats") =>
        \A c \in CollectionNames : result.out.value[c] = indexedSum[c]

\* C9: search_similar(query, document_type, k) on a collection of m records
\* returns success with exactly min(k, m) results, for every k >= 1 and
\* m >= 0; on an empty collection that is success with no results.
C9_SearchReturnsMinKM ==
    (Called("search_similar") /\ result.document_type \in DocumentTypes) =>
        /\ result.out.kind = "return"
        /\ result.out.value.success
        /\ Len(result.out.value.results) =
               Min(result.n_results, collection_count(store[Target]))

\* a search asked for fewer results (at least 2) than the collection holds
C9_Witness ==
    /\ Called("search_similar")
    /\ result.document_type \in DocumentTypes
    /\ result.n_results >= 2
    /\ result.n_results < collection_count(store[Target])
    /\ Len(result.out.value.results) = result.n_results

HasContent(doc) == "content" \in DOMAIN doc /\ doc.content # << >>
NonEmptyDocs(documents) == Cardinality({i \in DOMAIN documents : HasContent(documents[i])})
NonEmptyTexts(documents) == Cardinality({i \in DOMAIN documents : documents[i] # << >>})

\* C10 as stated: either entry point of conflict detection, given a list in
\* which fewer than 2 documents have non-empty content, returns an empty list
\* and raises no error.
C10_FewNonEmptyReturnsEmpty ==
    /\ (Called("detect_semantic_conflicts") /\ NonEmptyTexts(result.documents) < 2)
           => result.out = Return(<< >>)
    /\ (Called("detect_conflicts") /\ NonEmptyDocs(result.documents) < 2)
           => result.out = Return(<< >>)

\* C10: detect_semantic_conflicts given fewer than 2 texts (none or one), and
\* detect_conflicts given a list in which fewer than 2 documents have
\* non-empty content, return an empty list and raise no error.
C10_TooFewReturnsEmpty ==
    /\ (Called("detect_semantic_conflicts") /\ Len(result.documents) < 2)
           => result.out = Return(<< >>)
    /\ (Called("detect_conflicts") /\ NonEmptyDocs(result.documents) < 2)
           => result.out = Return(<< >>)

\* detect_conflicts was given two or more documents of which fewer than two
\* have content, and returned the empty list
C10_Witness ==
    /\ Called("detect_conflicts")
    /\ Len(result.documents) >= 2
    /\ NonEmptyDocs(result.documents) < 2
    /\ result.out = Return(<< >>)

\* the pairs (i, j), i < j, of the documents last handed to
\* detect_semantic_conflicts whose cosine similarity exceeds the threshold
SimilarPairs ==
    LET docs == result.documents
        n == Len(docs)
        Similar(i, j) == GreaterThanPct(Cosine2(Embed(docs[i + 1]), Embed(docs[j + 1])),
                                        result.threshold)
    IN  {p \in (0..(n - 1)) \X (0..(n - 1)) : p[1] < p[2] /\ Similar(p[1], p[2])}

Findings == result.out.value
FindingPairs == {<<Findings[k].doc1_index, Findings[k].doc2_index>> : k \in DOMAIN Findings}

\* C11: detect_semantic_conflicts returns exactly one finding for each pair
\* (i, j), i < j, whose cosine similarity is greater than the threshold, and
\* no finding for any other pair.
C11_OneFindingPerSimilarPair ==
    Called("detect_semantic_conflicts") =>
        /\ result.out.kind = "return"
        /\ FindingPairs = SimilarPairs
        /\ Len(Findings) = Cardinality(SimilarPairs)

\* three documents of which some pairs are reported and some are not
C11_Witness ==
    /\ Called("detect_semantic_conflicts")
    /\ Len(result.documents) = 3
    /\ Len(Findings) >= 1
    /\ Len(Findings) < 3
    /\ FindingPairs = SimilarPairs

\* C12: every finding of detect_semantic_conflicts has severity 'high' exactly
\* when its similarity_score is greater than 0.95 and 'medium' otherwise, and
\* a 'medium' finding has threshold < similarity_score <= 0.95, whatever the
\* threshold of the caller.
C12_SeverityBySimilarity ==
    Called("detect_semantic_conflicts") =>
        \A k \in DOMAIN Findings :
            LET f == Findings[k]
                above95 == GreaterThanPct(f.similarity_score, HighSeverityPct)
            IN  /\ f.severity \in {"high", "medium"}
                /\ f.severity = "high" <=> above95
                /\ f.severity = "medium" =>
                       /\ GreaterThanPct(f.similarity_score, result.threshold)
                       /\ ~above95

\* a list of findings that holds a 'high' and a 'medium' one
C12_Witness ==
    /\ Called("detect_semantic_conflicts")
    /\ \E k \in DOMAIN Findings : Findings[k].severity = "high"
    /\ \E k \in DOMAIN Findings : Findings[k].severity = "medium"

\* clear_collection was last called on one of the three document types and
\* returned True
Cleared ==
    /\ Called("clear_collection")
    /\ result.document_type \in DocumentTypes
    /\ result.out = Return(TRUE)

\* the step is an indexing call of a document that has chunks into the
\* collection just cleared
IndexesIntoCleared ==
    \/ /\ result'.op = "index_document"
       /\ result'.document_type = result.document_type
       /\ result'.file_path.ext \in SupportedFormats
       /\ Disk(result'.file_path).text # << >>
    \/ /\ result'.op = "create_sample_data"
       /\ result.document_type \in {"rfq", "bid"}

\* C13: after clear_collection(document_type) returned True, the count of that
\* collection is 0, a following search on it succeeds with an empty result,
\* and a following indexing call into it adds records.
C13_ClearedCollectionUsable ==
    [][Cleared =>
          /\ collection_count(store[Target]) = 0
          /\ (result'.op = "search_similar" /\ result'.document_type = result.document_type)
                 => /\ result'.out.kind = "return"
                    /\ result'.out.value.success
                    /\ result'.out.value.results = << >>
          /\ IndexesIntoCleared => collection_count(store'[Target]) > 0]_vars

\* the records of a collection, as search results show them
Shown(coll) == {[id |-> coll[i].id, document |-> coll[i].document,
                 metadata |-> coll[i].metadata] : i \in DOMAIN coll}
ShownResults(results) == {[id |-> results[i].id, document |-> results[i].document,
                           metadata |-> results[i].metadata] : i \in DOMAIN results}
FirstChars(t, n) == SubSeq(t, 1, Min(n, Len(t)))

\* C14: get_context_for_bid queries both collections with the first 1000
\* characters of rfq_text, returns at most n_historical_bids results, all
\* from the historical-bids collection, and at most n_rfq_chunks results, all
\* from the RFQ collection, and total_context_chunks is the sum of the lengths
\* of the two lists.
C14_ContextFromBothCollections ==
    Called("get_context_for_bid") =>
        LET context == result.out.value
        IN  /\ result.out.kind = "return"
            /\ result.queries = <<FirstChars(result.rfq_text, 1000),
                                  FirstChars(result.rfq_text, 1000)>>
            /\ Len(context.historical_bids) <= result.n_historical_bids
            /\ ShownResults(context.historical_bids) \subseteq Shown(store["historical_bids"])
            /\ Len(context.similar_rfqs) <= result.n_rfq_chunks
            /\ ShownResults(context.similar_rfqs) \subseteq Shown(store["rfq_documents"])
            /\ context.total_context_chunks =
                   Len(context.historical_bids) + Len(context.similar_rfqs)

\* an RFQ of more than 1000 characters, fewer historical bids asked for than
\* are stored and more RFQ chunks asked for than are stored
C14_Witness ==
    /\ Called("get_context_for_bid")
    /\ Len(result.rfq_text) > 1000
    /\ Len(result.queries[1]) = 1000
    /\ Len(result.out.value.historical_bids) = result.n_historical_bids
    /\ result.n_historical_bids < collection_count(store["historical_bids"])
    /\ Len(result.out.value.similar_rfqs) = collection_count(store["rfq_documents"])
    /\ result.out.value.similar_rfqs # << >>
    /\ result.n_rfq_chunks > collection_count(store["rfq_documents"])

\* C15: get_collection_stats returns, in its embedding_model field, the name
\* of the embedding model the service was constructed with (a string, not a
\* number).
C15_StatsNameTheModel ==
    Returned_("get_collection_stats") =>
        /\ result.out.value.embedding_model \notin Int
        /\ result.out.value.embedding_model = model_name

\* the chunks of a document (ids doc_id_chunk_0 ..) that a collection holds
HeldChunks(coll, doc_id, cks) ==
    {i \in 1..Len(cks) : \E r \in DOMAIN coll : /\ coll[r].id = ChunkId(doc_id, i - 1)
                                                /\ coll[r].document = cks[i]}
AllOrNone(coll, doc_id, cks) ==
    HeldChunks(coll, doc_id, cks) \in {{}, 1..Len(cks)}

SamplesAllOrNone(coll, samples, sample_cks) ==
    \A k \in DOMAIN samples : AllOrNone(coll, samples[k].metadata.doc_id, sample_cks[k])

\* C16: after an index_document or create_sample_data call, successful or
\* not, the target collection holds all the chunks of each document of the
\* call or none of them, never some of them only.
C16_AllOrNothingPerDocument ==
    /\ Called("create_sample_data") =>
           /\ SamplesAllOrNone(store["rfq_documents"], sample_rfqs, sample_rfq_chunks)
           /\ SamplesAllOrNone(store["historical_bids"], sample_bids, sample_bid_chunks)
    /\ (Called("index_document") /\ result.document_type \in DocumentTypes) =>
           AllOrNone(store[Target],
                     GetOr(result.metadata, "doc_id", basename(result.file_path)),
                     chunk_text(Disk(result.file_path).text, IndexChunkSize, IndexOverlap))

\* a create_sample_data call whose adds were refused, on collections that
\* hold both chunks of the first (two-chunk) sample RFQ
C16_Witness ==
    /\ Called("create_sample_data")
    /\ result.out.value.errors > 0
    /\ Len(sample_rfq_chunks[1]) = 2
    /\ HeldChunks(store["rfq_documents"], sample_rfqs[1].metadata.doc_id,
                  sample_rfq_chunks[1]) = {1, 2}

PlumberRaised == ExtractorRaises(result.file_bytes.pages, result.file_bytes.plumber)
PyPdfRaised == ExtractorRaises(result.file_bytes.pages, result.file_bytes.pypdf)

\* C17: process_pdf tries pdfplumber first and invokes PyPDF2 only when
\* pdfplumber raised; it returns a failure result if and only if both
\* extractors raise, and success otherwise.
C17_FallbackOnlyAfterPrimaryFails ==
    Called("process_pdf") =>
        /\ result.tried[1] = "pdfplumber"
        /\ ("PyPDF2" \in {result.tried[k] : k \in DOMAIN result.tried}) <=> PlumberRaised
        /\ Len(result.tried) <= 2
        /\ ~result.out.success <=> (PlumberRaised /\ PyPdfRaised)

\* pdfplumber raised part-way through a file that PyPDF2 reads to the end
C17_Witness ==
    /\ Called("process_pdf")
    /\ PlumberRaised
    /\ result.file_bytes.plumber >= 1
    /\ ~PyPdfRaised
    /\ result.tried = <<"pdfplumber", "PyPDF2">>
    /\ result.out.success

\* C18: with several callers on the shared service, operations on one
\* collection exclude one another: no add or query on a collection runs
\* between the delete and the re-create of a clear_collection on it and
\* finds the collection missing.
C18_NoAccessWhileClearing ==
    (Called("search_similar") \/ Called("create_sample_data")) => result.missing = {}

Ids(ids) == {ids[i] : i \in DOMAIN ids}

AddsIssued ==
    IF Called("create_sample_data") THEN SampleAdds
    ELSE IF Called("index_chunks") THEN result.adds
    ELSE << >>

\* C20: every collection.add issued for a document of n chunks passes ids,
\* embeddings, documents and metadatas of length n each, where the i-th id is
\* doc_id_chunk_i, the i-th document is the i-th chunk and the i-th metadata
\* has chunk_index = i (i from 0).
C20_AddArgumentsAligned ==
    \A k \in DOMAIN AddsIssued :
            LET add == AddsIssued[k]
                n == Len(add.chunks)
            IN  /\ Len(add.args.ids) = n
                /\ Len(add.args.embeddings) = n
                /\ Len(add.args.documents) = n
                /\ Len(add.args.metadatas) = n
                /\ \A i \in 0..(n - 1) :
                       /\ add.args.ids[i + 1] = ChunkId(add.doc_id, i)
                       /\ add.args.documents[i + 1] = add.chunks[i + 1]
                       /\ add.args.metadatas[i + 1].chunk_index = i

\* an add for a file of two chunks by index_document's code
C20_Witness ==
    /\ Called("index_chunks")
    /\ Len(result.adds) = 1
    /\ Len(result.adds[1].chunks) = 2
    /\ Len(result.adds[1].args.ids) = 2
    /\ result.out.kind = "return"

----------------------------------------------------------------------------
(* Properties of the sentence cut *)

\* the 0-based offsets in window w at which a sentence terminator occurs
TerminatorOffsets(w) ==
    {i \in 0..(Len(w) - 2) :
        \E k \in 1..Len(Separators) : SubSeq(w, i + 1, i + 2) = Separators[k]}

\* the end the claim states for the window that starts at st
NearestTerminatorEnd(st) ==
    LET w == PySlice(text, st, st + chunk_size)
        late == {i \in TerminatorOffsets(w) : 2 * i >= chunk_size}
    IN  IF late = {} THEN st + chunk_size ELSE st + SetMax(late) + 2

\* C21 (as claimed): a window [start, start+chunk_size) that does not reach the
\* end of the text is cut immediately after the sentence terminator nearest to
\* the window end among the terminators at an offset of at least half of
\* chunk_size, and at start+chunk_size when there is none.
C21_CutAtNearestTerminator ==
    \A k \in 1..Len(windows) :
        (windows[k][1] >= 0 /\ windows[k][1] + chunk_size < Len(text)) =>
            windows[k][2] = NearestTerminatorEnd(windows[k][1])

----------------------------------------------------------------------------
(* Properties of the returned chunks as spans of the text *)

\* the windows that hold a non-whitespace character: the ones that give a chunk
NonBlankWindows == {k \in 1..Len(windows) : ~Blank(RawWindow(k))}

\* the window the j-th chunk was cut from
WindowOf(j) ==
    CHOOSE k \in NonBlankWindows : Cardinality({m \in NonBlankWindows : m <= k}) = j

\* the 1-based positions of the text that window k keeps after strip()
Span(k) ==
    LET lo == PyClamp(windows[k][1], Len(text))
        hi == PyClamp(windows[k][2], Len(text))
        keep == {i \in (lo + 1)..hi : text[i] \notin Whitespace}
    IN  [from |-> SetMin(keep), to |-> SetMax(keep)]

\* C22: for a text longer than chunk_size and 0 <= overlap < chunk_size, the
\* returned chunks are contiguous spans of the text in source order, each at
\* most chunk_size long, and every non-whitespace position of the text lies in
\* the span of at least one returned chunk.
C22_ChunksAreOrderedCoveringSpans ==
    (Returned /\ LongText /\ OverlapOk) =>
        /\ Len(chunks) = Cardinality(NonBlankWindows)
        /\ \A j \in 1..Len(chunks) :
              /\ chunks[j] = SubSeq(text, Span(WindowOf(j)).from, Span(WindowOf(j)).to)
              /\ Len(chunks[j]) <= chunk_size
        /\ \A j \in 1..(Len(chunks) - 1) :
              /\ Span(WindowOf(j)).from <= Span(WindowOf(j + 1)).from
              /\ Span(WindowOf(j)).to <= Span(WindowOf(j + 1)).to
        /\ \A i \in 1..Len(text) :
              text[i] \notin Whitespace =>
                  \E j \in 1..Len(chunks) :
                      Span(WindowOf(j)).from <= i /\ i <= Span(WindowOf(j)).to

\* two chunks from overlapping windows, one cut at a sentence end and one
\* trimmed
C22_Witness ==
    /\ Returned /\ LongText /\ OverlapOk /\ overlap >= 1
    /\ Len(chunks) >= 2
    /\ \E k \in 1..Len(windows) :
          windows[k][2] < windows[k][1] + chunk_size /\ windows[k][2] < Len(text)
    /\ \E j \in 1..Len(chunks) : chunks[j] # RawWindow(WindowOf(j))

----------------------------------------------------------------------------
(* Properties of index_project_documents *)

ProjectOut == result.out.value
FilesOf(list) == {list[k].file : k \in DOMAIN list}
TimesIn(list, f) == Cardinality({k \in DOMAIN list : list[k].file = f})
TimesMatched(f) == Cardinality({k \in DOMAIN result.files : result.files[k] = f})

RECURSIVE ChunksSum(_)
ChunksSum(list) == IF list = << >> THEN 0 ELSE Head(list).chunks + ChunksSum(Tail(list))

\* C23: index_project_documents attempts every matched file whatever happened
\* to the files before it: it returns with indexed_count + failed_count =
\* total_files, every matched file is in exactly one of the lists indexed and
\* failed (once per time it was matched), and total_chunks is the sum of the
\* chunk counts of the indexed files.
C23_EveryMatchedFileAttempted ==
    (Called("index_project_documents") /\ PathExists(result.project_path)) =>
        /\ result.out.kind = "return"
        /\ ProjectOut.success
        /\ ProjectOut.total_files = Len(result.files)
        /\ ProjectOut.indexed_count = Len(ProjectOut.indexed)
        /\ ProjectOut.failed_count = Len(ProjectOut.failed)
        /\ ProjectOut.indexed_count + ProjectOut.failed_count = ProjectOut.total_files
        /\ \A f \in FilesOf(ProjectOut.indexed) \cup FilesOf(ProjectOut.failed) \cup
                    {result.files[k] : k \in DOMAIN result.files} :
              /\ (f \in FilesOf(ProjectOut.indexed)) # (f \in FilesOf(ProjectOut.failed))
              /\ TimesIn(ProjectOut.indexed, f) + TimesIn(ProjectOut.failed, f)
                     = TimesMatched(f)
        /\ ProjectOut.total_chunks = ChunksSum(ProjectOut.indexed)

\* three files matched, one of them twice, and the files after the first
\* failure were attempted all the same
C23_Witness ==
    /\ Called("index_project_documents") /\ PathExists(result.project_path)
    /\ Len(result.files) >= 3
    /\ \E f \in FilesOf(ProjectOut.failed) : TimesMatched(f) = 2
    /\ ProjectOut.failed_count >= 2
    /\ ProjectOut.failed[Len(ProjectOut.failed)].file = result.files[Len(result.files)]

----------------------------------------------------------------------------
(* Properties of the collections as partitions *)

Writers == {"index_document", "index_chunks", "clear_collection"}
Readers == {"search_similar", "get_context_for_bid", "detect_semantic_conflicts",
            "get_collection_stats"}

\* C24: an indexing call or a clear_collection call for one document type
\* leaves the records (and so the counts) of the other two collections as they
\* were, and search_similar, get_context_for_bid, detect_semantic_conflicts and
\* get_collection_stats leave all three collections as they were.
C24_CollectionsIndependent ==
    [][/\ result'.op \in Writers =>
             \A c \in CollectionNames \ {CollectionOf(result'.document_type)} :
                 store'[c] = store[c]
       /\ result'.op \in Readers => store' = store]_vars

\* the RFQ collection has just been cleared of records while the bids
\* collection holds some
C24_Witness ==
    /\ Called("clear_collection") /\ result.document_type = "rfq"
    /\ prevCount["rfq_documents"] > 0
    /\ store["rfq_documents"] = << >>
    /\ store["historical_bids"] # << >>

----------------------------------------------------------------------------
(* Properties of the source labels of detect_conflicts *)

\* the positions of the input documents whose content is compared, in order
ComparedPositions(documents) ==
    SelectSeq([i \in 1..Len(documents) |-> i], LAMBDA i : HasContent(documents[i]))

\* the label of the input document at position i
SourceLabel(documents, i) == GetOr(documents[i], "source", <<"Document", i>>)

\* the pairs of compared texts that detect_semantic_conflicts reports
ComparedPairs(documents) ==
    detect_semantic_conflicts(DocTexts(documents), ConflictThresholdPct)

\* C25 (as claimed): in every finding of detect_conflicts, source1 and source2
\* are the labels of the two input documents whose contents were compared, and
\* snippet1 and snippet2 are prefixes of the contents of those documents, also
\* when some input documents have empty or missing content.
C25_SourcesNameComparedDocuments ==
    Called("detect_conflicts") =>
        \A k \in DOMAIN Findings :
            LET at == ComparedPositions(result.documents)
                pair == ComparedPairs(result.documents)[k]
                d1 == at[pair.doc1_index + 1]
                d2 == at[pair.doc2_index + 1]
            IN  /\ Findings[k].source1 = SourceLabel(result.documents, d1)
                /\ Findings[k].source2 = SourceLabel(result.documents, d2)
                /\ Findings[k].snippet1 =
                       FirstChars(result.documents[d1].content, ConflictPreviewLen)
                /\ Findings[k].snippet2 =
                       FirstChars(result.documents[d2].content, ConflictPreviewLen)

----------------------------------------------------------------------------
(* Properties of the content returned after a fallback *)

\* C26 (as claimed): when pdfplumber raised part-way through the pages and
\* PyPDF2 read the file, the returned content is PyPDF2's page texts only, each
\* page once; nothing pdfplumber had collected before it raised is in it.
C26_FallbackContentIsSecondaryOnly ==
    (Called("process_pdf") /\ PlumberRaised /\ ~PyPdfRaised) =>
        /\ result.out.success
        /\ result.out.content =
               Extracted(result.file_bytes.pages, result.file_bytes.pypdf, PyPdfPage)
        /\ \A n \in 1..Len(result.file_bytes.pages) :
               Cardinality({k \in DOMAIN result.out.content :
                               result.out.content[k][1] = "--- Page"
                               /\ result.out.content[k][2] = n}) <= 1

----------------------------------------------------------------------------
(* Properties of generate_bid *)

\* what get_context_for_bid returns for the RFP content of the call
Retrieved ==
    get_context_for_bid(store, result.rfp_content, BidContextBids, BidContextChunks).out.value

\* C27 (as claimed): generate_bid with use_rag=True passes the RFP content to
\* get_context_for_bid; whenever the bids or the RFQ collection returns a
\* result and generation succeeds, the prompt includes the retrieved context
\* and the result carries rag_context counts equal to the lengths of the
\* retrieved lists.
C27_BidUsesRetrievedContext ==
    (/\ Called("generate_bid") /\ result.use_rag
     /\ Retrieved.total_context_chunks > 0
     /\ result.out.success) =>
        /\ result.prompt.rag_section # << >>
        /\ "rag_context" \in DOMAIN result.out
        /\ result.out.rag_context.historical_bids_count = Len(Retrieved.historical_bids)
        /\ result.out.rag_context.similar_rfqs_count = Len(Retrieved.similar_rfqs)

----------------------------------------------------------------------------
(* Properties of the value clear_collection returns *)

\* C28 (as claimed): clear_collection returns True only when a collection was
\* cleared: for a document_type outside rfq, bid, conflict it reports failure
\* and changes nothing, and whenever it returns False the named collection
\* still exists.
C28_ClearReportsWhatItDid ==
    Called("clear_collection") =>
        /\ result.out.value = TRUE =>
               /\ result.document_type \in DocumentTypes
               /\ store[Target] = << >>
        /\ result.document_type \notin DocumentTypes =>
               /\ result.out.value = FALSE
               /\ Counts(store) = prevCount
        /\ result.out.value = FALSE => Target \notin clearing

----------------------------------------------------------------------------
(* Properties of the service singleton *)

\* every instance some call of get_rag_service has returned
ReturnedInstances == UNION {threads[t].got : t \in Threads}

\* C29 (as claimed): get_rag_service constructs at most one RAGService per
\* process and every call returns that same instance, also when the first
\* calls are made concurrently from several threads.
C29_OneServiceInstance ==
    /\ constructed <= 1
    /\ Cardinality(ReturnedInstances) <= 1

----------------------------------------------------------------------------
(* Properties of the Database ids *)

\* C30 (as claimed): every create/save operation returns an id distinct from
\* every id returned before for the same kind of object, and never overwrites
\* a stored object, for any sequence of calls, two calls within the same clock
\* second included.
C30_IdsFreshAndNothingOverwritten ==
    /\ \A i, j \in DOMAIN issued :
          (i < j /\ issued[i].op = issued[j].op) => issued[i].id # issued[j].id
    /\ \A i \in DOMAIN issued :
          /\ issued[i].id \in DOMAIN db[issued[i].subdirectory]
          /\ db[issued[i].subdirectory][issued[i].id].data = issued[i].data

====
